---------------------------- MODULE Spec2Model ----------------------------
(***************************************************************************)
(* Plan normalisation of balsa's ntp-qo package: the MySQL indented-text   *)
(* adapter and the DuckDB JSON adapter (src/ntp-qo/dbs/mysql.py,           *)
(* src/ntp-qo/dbs/duckdb.py), the operator classification and the SQL      *)
(* dialect transforms.                                                     *)
(*                                                                         *)
(* Text is modelled by TLA+ strings, character by character.  Python       *)
(* floats are fixed-point numbers counted in thousandths (Milli), so that  *)
(* 120.5 is 120500 and the sentinel cost 1000.0 is 1000000.                *)
(* Python's None is the model value None.                                  *)
(***************************************************************************)
EXTENDS Integers, Sequences, FiniteSets, TLC

None == "<None>"

(***************************************************************************)
(* Bounds of the model.                                                    *)
(***************************************************************************)
\* operator texts are built from at most MaxFragments fragments
MaxFragments == 2

(***************************************************************************)
(* Python str primitives.                                                  *)
(***************************************************************************)
Ch(s, i) == SubSeq(s, i, i)

UpperAlpha == "ABCDEFGHIJKLMNOPQRSTUVWXYZ"
LowerAlpha == "abcdefghijklmnopqrstuvwxyz"
Digits == "0123456789"

\* the characters of a text, as a set
CharsOf(alphabet) == {Ch(alphabet, i) : i \in 1..Len(alphabet)}

UpperChars == CharsOf(UpperAlpha)
DigitChars == CharsOf(Digits)

InStr(c, alphabet) == c \in alphabet

\* \s and \w of Python's re
SpaceChars == CharsOf(" \t\n\r")
WordChars == CharsOf(UpperAlpha \o LowerAlpha \o Digits \o "_")

IsSpace(c) == InStr(c, SpaceChars)
IsDigit(c) == InStr(c, DigitChars)
IsWordCh(c) == InStr(c, WordChars)

LowerCh(c) ==
    IF InStr(c, UpperChars)
    THEN Ch(LowerAlpha, CHOOSE i \in 1..26 : Ch(UpperAlpha, i) = c)
    ELSE c

RECURSIVE LowerFrom(_, _)
LowerFrom(s, i) ==
    IF i > Len(s) THEN "" ELSE LowerCh(Ch(s, i)) \o LowerFrom(s, i + 1)

\* str.lower()
Lower(s) == LowerFrom(s, 1)

\* s[i:] with a 1-based i
From(s, i) == SubSeq(s, i, Len(s))

\* s.startswith(p, i-1) with a 1-based i
MatchAt(s, i, p) ==
    /\ i >= 1
    /\ i + Len(p) - 1 <= Len(s)
    /\ SubSeq(s, i, i + Len(p) - 1) = p

\* the 1-based positions at which p occurs in s
Occurrences(s, p) == {i \in 1..(Len(s) + 1) : MatchAt(s, i, p)}

Min(S) == CHOOSE x \in S : \A y \in S : x <= y
Max(S) == CHOOSE x \in S : \A y \in S : x >= y

\* str.find(p): 0-based position of the first occurrence, -1 when absent
PyFind(s, p) == IF Occurrences(s, p) = {} THEN -1 ELSE Min(Occurrences(s, p)) - 1

\* p in s
Contains(s, p) == Occurrences(s, p) # {}

\* str.strip()
Strip(s) ==
    LET keep == {i \in 1..Len(s) : ~IsSpace(Ch(s, i))}
    IN  IF keep = {} THEN "" ELSE SubSeq(s, Min(keep), Max(keep))

RECURSIVE JoinWith(_, _)
\* sep.join(parts)
JoinWith(parts, sep) ==
    IF parts = <<>> THEN ""
    ELSE IF Len(parts) = 1 THEN parts[1]
    ELSE parts[1] \o sep \o JoinWith(Tail(parts), sep)

\* the last position of the longest run of characters of the alphabet that
\* starts at position i (i - 1 when the run is empty)
RECURSIVE RunEnd(_, _, _)
RunEnd(s, i, alphabet) ==
    IF i <= Len(s) /\ InStr(Ch(s, i), alphabet)
    THEN RunEnd(s, i + 1, alphabet)
    ELSE i - 1

(***************************************************************************)
(* mysql.py: _map_mysql_operation_to_standard                              *)
(***************************************************************************)
map_mysql_operation_to_standard_NoJoinGuard(operation_name) ==
    LET operation_lower == Lower(operation_name)
    IN  IF Contains(operation_lower, "table scan") THEN "Seq Scan"
        ELSE IF Contains(operation_lower, "index lookup")
                \/ Contains(operation_lower, "index scan") THEN "Index Scan"
        ELSE IF Contains(operation_lower, "nested loop") THEN "Nested Loop"
        ELSE IF Contains(operation_lower, "hash join") THEN "Hash Join"
        ELSE IF Contains(operation_lower, "inner hash join") THEN "Hash Join"
        ELSE IF Contains(operation_lower, "aggregate") THEN "Aggregate"
        ELSE IF Contains(operation_lower, "sort")
                \/ Contains(operation_lower, "ordering") THEN "Sort"
        ELSE IF Contains(operation_lower, "filter") THEN "Filter"
        ELSE IF Contains(operation_lower, "hash") THEN "Hash"
        ELSE Strip(operation_name)

map_mysql_operation_to_standard(operation_name) ==
    LET operation_lower == Lower(operation_name)
    IN  IF Contains(operation_lower, "table scan") THEN "Seq Scan"
        ELSE IF Contains(operation_lower, "index lookup")
                \/ Contains(operation_lower, "index scan") THEN "Index Scan"
        ELSE IF Contains(operation_lower, "nested loop") THEN "Nested Loop"
        ELSE IF Contains(operation_lower, "hash join") THEN "Hash Join"
        ELSE IF Contains(operation_lower, "inner hash join") THEN "Hash Join"
        ELSE IF Contains(operation_lower, "aggregate") THEN "Aggregate"
        ELSE IF Contains(operation_lower, "sort")
                \/ Contains(operation_lower, "ordering") THEN "Sort"
        ELSE IF Contains(operation_lower, "filter") THEN "Filter"
        ELSE IF Contains(operation_lower, "hash")
                /\ ~Contains(operation_lower, "join") THEN "Hash"
        ELSE Strip(operation_name)

(***************************************************************************)
(* Python numbers.  float() and int() of the texts the regular expressions *)
(* capture; a float is counted in thousandths.                             *)
(***************************************************************************)
RECURSIVE Pow10(_)
Pow10(n) == IF n = 0 THEN 1 ELSE 10 * Pow10(n - 1)

Milli == Pow10(3)

\* the outcome of a conversion: the number, or ValueError raised
Number(n) == [ok |-> TRUE, val |-> n]
ValueError == [ok |-> FALSE, raised |-> "ValueError"]

DigitVal(c) == (CHOOSE i \in 1..10 : Ch(Digits, i) = c) - 1

RECURSIVE DigitsVal(_)
\* the value of a run of decimal digits ("" is 0)
DigitsVal(d) ==
    IF d = "" THEN 0
    ELSE 10 * DigitsVal(SubSeq(d, 1, Len(d) - 1)) + DigitVal(Ch(d, Len(d)))

\* the text before the first c (all of s when c does not occur)
Before(s, c) == IF Contains(s, c) THEN SubSeq(s, 1, PyFind(s, c)) ELSE s

\* the text after the first c (None when c does not occur)
After(s, c) == IF Contains(s, c) THEN From(s, PyFind(s, c) + 2) ELSE None

Unsigned(t) == IF MatchAt(t, 1, "+") \/ MatchAt(t, 1, "-") THEN Tail(t) ELSE t

AllDigits(t) == RunEnd(t, 1, DigitChars) = Len(t)

OrElse(r, default) == IF r.ok THEN r.val ELSE default

\* float(s) for a text s over [0-9.e+-]:
\*   [sign] (digits [. [digits]] | . digits) [e [sign] digits]
ParseFloat(s) ==
    LET mant == Unsigned(Before(s, "e"))
        expo == After(s, "e")
        intpart == Before(mant, ".")
        frac == IF Contains(mant, ".") THEN After(mant, ".") ELSE ""
        wellformed ==
            /\ AllDigits(intpart) /\ AllDigits(frac)
            /\ intpart # "" \/ frac # ""
            /\ expo # None => Unsigned(expo) # "" /\ AllDigits(Unsigned(expo))
        mantissa == DigitsVal(intpart) * Milli + DigitsVal(SubSeq(frac \o "000", 1, 3))
        scale == IF expo = None THEN 1 ELSE Pow10(DigitsVal(Unsigned(expo)))
        scaled == IF expo # None /\ MatchAt(expo, 1, "-") THEN mantissa \div scale
                  ELSE mantissa * scale
    IN  IF ~wellformed THEN ValueError
        ELSE IF MatchAt(s, 1, "-") THEN Number(0 - scaled) ELSE Number(scaled)

\* int(s) for a text s over [0-9]
ParseInt(s) ==
    IF s # "" /\ RunEnd(s, 1, DigitChars) = Len(s) THEN Number(DigitsVal(s)) ELSE ValueError

(***************************************************************************)
(* sql_parse/ast.py: Node.  A dict is a function from its keys.            *)
(***************************************************************************)
EmptyDict == <<>>

Put(d, k, v) == (k :> v) @@ d

Node(node_type, cost) ==
    [node_type |-> node_type, cost |-> cost, actual_time_ms |-> None,
     table_name |-> None, table_alias |-> None, info |-> EmptyDict,
     children |-> <<>>]

(***************************************************************************)
(* The regular expressions of mysql.py: _parse_mysql_operation_line.       *)
(* Each gives the captured group, or None when the pattern does not match. *)
(***************************************************************************)
CostChars == CharsOf("0123456789.e+-")
TimeChars == CharsOf("0123456789.")

RECURSIVE RunEndNot(_, _, _)
\* RunEnd for the complement of the alphabet
RunEndNot(s, i, alphabet) ==
    IF i <= Len(s) /\ ~InStr(Ch(s, i), alphabet)
    THEN RunEndNot(s, i + 1, alphabet)
    ELSE i - 1

\* re.match(r'\s*->\s*([^(]+)', line).group(1)
operation_match(line) ==
    LET i0 == RunEnd(line, 1, SpaceChars) + 1
        a  == i0 + 2
        e  == RunEndNot(line, a, {"("})
        w  == RunEnd(line, a, SpaceChars)
    IN  IF ~MatchAt(line, i0, "->") \/ e < a THEN None
        ELSE IF w < e THEN SubSeq(line, w + 1, e)
        ELSE SubSeq(line, e, e)

\* re.search(key + r'([alphabet]+)', s).group(1)
SearchKeyRun(s, key, alphabet) ==
    LET hits == {i \in Occurrences(s, key) :
                    RunEnd(s, i + Len(key), alphabet) >= i + Len(key)}
    IN  IF hits = {} THEN None
        ELSE LET a == Min(hits) + Len(key)
             IN  SubSeq(s, a, RunEnd(s, a, alphabet))

cost_match(line) == SearchKeyRun(line, "cost=", CostChars)
rows_match(line) == SearchKeyRun(line, "rows=", CostChars)

\* re.search(r'actual time=([0-9.]+)\.\.([0-9.]+)', line).group(2)
actual_time_match(line) ==
    LET key == "actual time="
        Splits(i) ==
            LET a == i + Len(key)
                e == RunEnd(line, a, TimeChars)
            IN  {k \in (a + 1)..(e - 2) : MatchAt(line, k, "..")}
        hits == {i \in Occurrences(line, key) : Splits(i) # {}}
    IN  IF hits = {} THEN None
        ELSE LET i == Min(hits)
                 k == Max(Splits(i))
             IN  SubSeq(line, k + 2, RunEnd(line, k + 2, TimeChars))

\* re.search(r'actual.*rows=([0-9]+)', line).group(1)
actual_rows_match(line) ==
    LET Rows(i) == {j \in Occurrences(line, "rows=") :
                       j >= i + 6 /\ RunEnd(line, j + 5, DigitChars) >= j + 5}
        hits == {i \in Occurrences(line, "actual") : Rows(i) # {}}
    IN  IF hits = {} THEN None
        ELSE LET j == Max(Rows(Min(hits)))
             IN  SubSeq(line, j + 5, RunEnd(line, j + 5, DigitChars))

\* re.search(r'Table scan on (\w+)', operation_name).group(1)
table_match(operation_name) == SearchKeyRun(operation_name, "Table scan on ", WordChars)

\* re.search(r'Index lookup on (\w+) using (\w+)', operation_name).group(1)
index_match(operation_name) ==
    LET key == "Index lookup on "
        Ok(i) == LET a == i + Len(key)
                     e == RunEnd(operation_name, a, WordChars)
                 IN  /\ e >= a
                     /\ MatchAt(operation_name, e + 1, " using ")
                     /\ RunEnd(operation_name, e + 8, WordChars) >= e + 8
        hits == {i \in Occurrences(operation_name, key) : Ok(i)}
    IN  IF hits = {} THEN None
        ELSE LET a == Min(hits) + Len(key)
             IN  SubSeq(operation_name, a, RunEnd(operation_name, a, WordChars))

\* the filter pattern with a greedy group, (.+) for (.+?)
filter_match_Greedy(line) ==
    LET hits == {i \in Occurrences(line, "Filter: ") : i + 8 <= Len(line)}
    IN  IF hits = {} THEN None ELSE From(line, Min(hits) + 8)

\* re.search(r'Filter: (.+?)(?:\s+\(cost=|$)', line).group(1)
filter_match(line) ==
    LET key == "Filter: "
        StopAt(q) == LET r == RunEnd(line, q, SpaceChars)
                     IN  r >= q /\ MatchAt(line, r + 1, "(cost=")
        hits == {i \in Occurrences(line, key) : i + Len(key) <= Len(line)}
    IN  IF hits = {} THEN None
        ELSE LET a == Min(hits) + Len(key)
                 e == Min({x \in a..Len(line) : x = Len(line) \/ StopAt(x + 1)})
             IN  SubSeq(line, a, e)

(***************************************************************************)
(* mysql.py: _parse_mysql_operation_line                                   *)
(***************************************************************************)
SentinelCost == 1000 * Milli

\* the optional entries of node.info: present when the pattern matched and
\* the conversion did not raise
OptionalNumber(key, text, r) == IF text # None /\ r.ok THEN key :> r.val ELSE EmptyDict
OptionalText(key, text) == IF text # None THEN key :> text ELSE EmptyDict

\* operation_match.group(1).strip() if operation_match else "Unknown"
OperationName(line) ==
    IF operation_match(line) # None THEN Strip(operation_match(line)) ELSE "Unknown"

\* the cost of a node: float(cost_match.group(1)), 1000.0 when there is no
\* match or float() raises ValueError
CostOf(text) == IF text # None THEN OrElse(ParseFloat(text), SentinelCost) ELSE SentinelCost

\* node.actual_time_ms
ActualTimeOf(text) ==
    IF text # None THEN OrElse(ParseFloat(text), None) ELSE None

\* node.table_name: the index lookup's table is assigned after the table scan's
TableOf(operation_name) ==
    IF index_match(operation_name) # None THEN index_match(operation_name)
    ELSE table_match(operation_name)

NodeOfLine(line, operation_name, table_name) ==
    [Node(map_mysql_operation_to_standard(operation_name), CostOf(cost_match(line)))
     EXCEPT
        !.actual_time_ms = ActualTimeOf(actual_time_match(line)),
        !.table_name = table_name,
        !.table_alias = table_name,
        !.info = OptionalText("filter", filter_match(line))
                 @@ ("engine" :> "mysql")
                 @@ ("mysql_operation" :> operation_name)
                 @@ ("mysql_line" :> Strip(line))
                 @@ OptionalNumber("actual_rows", actual_rows_match(line),
                                   ParseInt(actual_rows_match(line)))
                 @@ OptionalNumber("estimated_rows", rows_match(line),
                                   ParseFloat(rows_match(line)))]

parse_mysql_operation_line(line) ==
    NodeOfLine(line, OperationName(line), TableOf(OperationName(line)))

(***************************************************************************)
(* mysql.py: _create_fallback_node; str({}) is "{}"                        *)
(***************************************************************************)
\* a fallback node that carries the sentinel cost
create_fallback_node_SentinelCost(json_dict_str) ==
    [Node("MySQL Error", SentinelCost) EXCEPT
        !.info = Put(Put(EmptyDict, "database_system", "mysql"),
                     "error", json_dict_str)]

create_fallback_node(json_dict_str) ==
    [Node("MySQL Error", 0) EXCEPT
        !.info = Put(Put(EmptyDict, "database_system", "mysql"),
                     "error", json_dict_str)]

(***************************************************************************)
(* mysql.py: _parse_mysql_text_plan.  Nodes are objects shared by          *)
(* reference: heap[id] is the node created for the id-th marker line, its  *)
(* children are ids, and NullRef is the reference None.                    *)
(***************************************************************************)
NullRef == 0

ParserStart == [root_node |-> NullRef, nodes_stack |-> <<>>, heap |-> <<>>]

\* a loop that skips blank lines only
IsSkipped_BlankOnly(line) == line = "" \/ Strip(line) = ""

\* the lines the loop skips: blank lines and lines without the marker
IsSkipped(line) == line = "" \/ Strip(line) = "" \/ ~Contains(line, "->")

\* indent_level = arrow_pos // 4
IndentLevel(line) == PyFind(line, "->") \div 4

\* a loop that pops every open ancestor but the root
PopStack_ToRoot(nodes_stack, indent_level) == SubSeq(nodes_stack, 1, 1)

\* while len(nodes_stack) > indent_level + 1: nodes_stack.pop()

PopStack(nodes_stack, indent_level) ==
    IF Len(nodes_stack) > indent_level + 1
    THEN SubSeq(nodes_stack, 1, indent_level + 1)
    ELSE nodes_stack

\* an append to the children of the root instead of the top of the stack
Attach_BelowRoot(heap, stack, id) ==
    [nodes_stack |-> Append(stack, id),
     heap |-> IF stack # <<>>
              THEN [heap EXCEPT ![stack[1]].children = Append(@, id)]
              ELSE heap]

\* parent.children.append(node) for the node on top of the stack, and
\* nodes_stack.append(node)
Attach(heap, stack, id) ==
    [nodes_stack |-> Append(stack, id),
     heap |-> IF stack # <<>>
              THEN [heap EXCEPT ![stack[Len(stack)]].children = Append(@, id)]
              ELSE heap]

\* the tree structure after a marker line at indent_level; the new node is
\* heap[id]
Place(st, indent_level, id) ==
    IF st.root_node = NullRef
    THEN [root_node |-> id, nodes_stack |-> <<id>>, heap |-> st.heap]
    ELSE [root_node |-> st.root_node]
         @@ Attach(st.heap, PopStack(st.nodes_stack, indent_level), id)

AddNode(st, node) == [st EXCEPT !.heap = Append(@, node)]

\* one iteration of the loop over text_lines
LineStep(st, line) ==
    IF IsSkipped(line) THEN st
    ELSE AddNode(Place(st, IndentLevel(line), Len(st.heap) + 1),
                 parse_mysql_operation_line(line))

RECURSIVE TreeOf(_, _)
\* the tree below a node, its children being the trees below them
TreeOf(heap, id) ==
    [heap[id] EXCEPT
        !.children = [k \in 1..Len(heap[id].children) |-> TreeOf(heap, heap[id].children[k])]]

\* return root_node if root_node else _create_fallback_node({})
ParserResult(st) ==
    IF st.root_node # NullRef THEN TreeOf(st.heap, st.root_node)
    ELSE create_fallback_node("{}")

RECURSIVE ParseLines(_, _)
ParseLines(st, lines) ==
    IF lines = <<>> THEN st ELSE ParseLines(LineStep(st, Head(lines)), Tail(lines))

parse_mysql_text_plan(text_lines) == ParserResult(ParseLines(ParserStart, text_lines))

(***************************************************************************)
(* The adapter as a state machine: a payload of text lines is drawn, the   *)
(* loop takes one line per step, and the result is returned at the end.    *)
(***************************************************************************)
VARIABLES tp_lines, tp_line_num, tp_st, tp_ret

tp_vars == <<tp_lines, tp_line_num, tp_st, tp_ret>>

\* a payload holds at most MaxLines lines
MaxLines == 4

PlanLines ==
    {"-> Table scan on title (cost=120.5 rows=1000)",
     "    -> Filter: year > 2000 (cost=50.0 rows=10)",
     "        -> Index lookup on t using i (cost=0.35 rows=1)",
     "",
     "+------+"}

NotReturned == [node_type |-> "<not returned>"]

TpInit ==
    /\ tp_lines \in UNION {[1..k -> PlanLines] : k \in 0..MaxLines}
    /\ tp_line_num = 0
    /\ tp_st = ParserStart
    /\ tp_ret = NotReturned

\* the loop body on a line that creates a node
ParseMarkerLine ==
    /\ tp_ret = NotReturned
    /\ tp_line_num < Len(tp_lines)
    /\ ~IsSkipped(tp_lines[tp_line_num + 1])
    /\ tp_line_num' = tp_line_num + 1
    /\ tp_st' = LineStep(tp_st, tp_lines[tp_line_num + 1])
    /\ UNCHANGED <<tp_lines, tp_ret>>

\* the loop body on a line it skips (continue)
SkipLine ==
    /\ tp_ret = NotReturned
    /\ tp_line_num < Len(tp_lines)
    /\ IsSkipped(tp_lines[tp_line_num + 1])
    /\ tp_line_num' = tp_line_num + 1
    /\ tp_st' = LineStep(tp_st, tp_lines[tp_line_num + 1])
    /\ UNCHANGED <<tp_lines, tp_ret>>

ReturnPlan ==
    /\ tp_ret = NotReturned
    /\ tp_line_num = Len(tp_lines)
    /\ tp_ret' = ParserResult(tp_st)
    /\ UNCHANGED <<tp_lines, tp_line_num, tp_st>>

(***************************************************************************)
(* The classification as a state machine: an operator text is drawn and    *)
(* classified by successive calls; cl_out holds the results in call order. *)
(***************************************************************************)
VARIABLES cl_in, cl_out

cl_vars == <<cl_in, cl_out>>

\* the same text is classified at most MaxCalls times
MaxCalls == 2

OpFragments ==
    {"", "Table scan on t", "Index lookup on t using i", "Index scan",
     "Nested loop", "Inner hash join", "Aggregate", "Sort", "ordering",
     "Filter: x", "Hash", "HASH_JOIN", "Limit", "TABLE SCAN"}

SeqsUpTo(S, n) == UNION {[1..k -> S] : k \in 1..n}

OpTexts == {JoinWith(parts, " ") : parts \in SeqsUpTo(OpFragments, MaxFragments)}

ClInit ==
    /\ cl_in \in OpTexts
    /\ cl_out = <<>>

Classify ==
    /\ Len(cl_out) < MaxCalls
    /\ cl_out' = Append(cl_out, map_mysql_operation_to_standard(cl_in))
    /\ UNCHANGED cl_in

(***************************************************************************)
(* The SQL dialect transforms: duckdb.py _transform_sql_for_duckdb and     *)
(* mysql.py _transform_sql_for_mysql.  A regular expression is modelled by *)
(* the match it has at a position of the text: Hit(e, repl) for a match    *)
(* that ends at position e and is replaced by repl.                        *)
(***************************************************************************)
reserved_aliases_duckdb == <<"at", "to", "as", "or", "and", "not", "in", "on">>

reserved_aliases_mysql ==
    <<"at", "to", "as", "or", "and", "not", "in", "on", "order", "group", "character">>

\* the quote characters of the two dialects.  A TLA+ string cannot hold
\* MySQL's backtick: the model writes an apostrophe for it, a character the
\* SQL texts of the model do not contain.
DoubleQuote == "\""
Backtick == "'"

NoMatch == [end |-> 0, repl |-> ""]

Hit(e, repl) == [end |-> e, repl |-> repl]

\* \b before the word character at position i
WordStart(s, i) ==
    /\ i >= 1 /\ i <= Len(s)
    /\ IsWordCh(Ch(s, i))
    /\ i = 1 \/ ~IsWordCh(Ch(s, i - 1))

\* \b after the word character at position e
WordEnd(s, e) == e = Len(s) \/ ~IsWordCh(Ch(s, e + 1))

\* the lower-case word w occurs at position i under re.IGNORECASE
MatchAtIgnoreCase(s, i, w) ==
    /\ i >= 1
    /\ i + Len(w) - 1 <= Len(s)
    /\ Lower(SubSeq(s, i, i + Len(w) - 1)) = w

\* AS\s+(reserved)\b at position a: the last position of the match, 0 when
\* there is none
AsAliasEnd(s, a, reserved) ==
    IF /\ MatchAtIgnoreCase(s, a, "as")
       /\ RunEnd(s, a + 2, SpaceChars) >= a + 2
       /\ MatchAtIgnoreCase(s, RunEnd(s, a + 2, SpaceChars) + 1, reserved)
       /\ WordEnd(s, RunEnd(s, a + 2, SpaceChars) + Len(reserved))
    THEN RunEnd(s, a + 2, SpaceChars) + Len(reserved)
    ELSE 0

\* the text of the alias of a match of AS\s+(reserved)\b that ends at e
AliasText(s, e, reserved) == SubSeq(s, e - Len(reserved) + 1, e)

\* step 1, \b(\w+)\s+AS\s+(reserved)\b by \1 AS "\2": the match whose first
\* word ends at e1
TableAliasFrom(s, i, e1, reserved, q) ==
    IF /\ RunEnd(s, e1 + 1, SpaceChars) > e1
       /\ AsAliasEnd(s, RunEnd(s, e1 + 1, SpaceChars) + 1, reserved) > 0
    THEN Hit(AsAliasEnd(s, RunEnd(s, e1 + 1, SpaceChars) + 1, reserved),
             SubSeq(s, i, e1) \o " AS " \o q
             \o AliasText(s, AsAliasEnd(s, RunEnd(s, e1 + 1, SpaceChars) + 1, reserved),
                          reserved)
             \o q)
    ELSE NoMatch

TableAliasMatch(s, i, reserved, q) ==
    IF WordStart(s, i) THEN TableAliasFrom(s, i, RunEnd(s, i, WordChars), reserved, q)
    ELSE NoMatch

\* step 2, \b(reserved)(\s*\.\s*\w+) by "\1"\2: the match whose dot is at d
ReferenceFrom(s, i, d, reserved, q) ==
    IF /\ MatchAt(s, d, ".")
       /\ RunEnd(s, RunEnd(s, d + 1, SpaceChars) + 1, WordChars)
              > RunEnd(s, d + 1, SpaceChars)
    THEN Hit(RunEnd(s, RunEnd(s, d + 1, SpaceChars) + 1, WordChars),
             q \o SubSeq(s, i, i + Len(reserved) - 1) \o q
             \o SubSeq(s, i + Len(reserved),
                       RunEnd(s, RunEnd(s, d + 1, SpaceChars) + 1, WordChars)))
    ELSE NoMatch

\* the reference pattern without its leading \b
ReferenceMatch_NoWordStart(s, i, reserved, q) ==
    IF MatchAtIgnoreCase(s, i, reserved)
    THEN ReferenceFrom(s, i, RunEnd(s, i + Len(reserved), SpaceChars) + 1, reserved, q)
    ELSE NoMatch

ReferenceMatch(s, i, reserved, q) ==
    IF WordStart(s, i) /\ MatchAtIgnoreCase(s, i, reserved)
    THEN ReferenceFrom(s, i, RunEnd(s, i + Len(reserved), SpaceChars) + 1, reserved, q)
    ELSE NoMatch

\* step 3 (MySQL), \bAS\s+(reserved)\b by AS, a space and the quoted \1
ColumnAliasMatch(s, i, reserved, q) ==
    IF WordStart(s, i) /\ AsAliasEnd(s, i, reserved) > 0
    THEN Hit(AsAliasEnd(s, i, reserved),
             "AS " \o q \o AliasText(s, AsAliasEnd(s, i, reserved), reserved) \o q)
    ELSE NoMatch

\* the match of a step's pattern at position i
PatternMatch(step, s, i, reserved, q) ==
    CASE step = 1 -> TableAliasMatch(s, i, reserved, q)
      [] step = 2 -> ReferenceMatch(s, i, reserved, q)
      [] step = 3 -> ColumnAliasMatch(s, i, reserved, q)

\* the first position from pos on at which the step's pattern matches, 0
\* when there is none
FirstMatch(step, s, pos, reserved, q) ==
    LET hits == {i \in pos..Len(s) : PatternMatch(step, s, i, reserved, q).end > 0}
    IN  IF hits = {} THEN 0 ELSE Min(hits)

RECURSIVE SubFrom(_, _, _, _, _)
\* re.sub from position pos on; i is the position of the leftmost match:
\* the match is replaced and the search goes on after it
SubAt(step, s, pos, i, reserved, q) ==
    IF i = 0 THEN From(s, pos)
    ELSE SubSeq(s, pos, i - 1)
         \o PatternMatch(step, s, i, reserved, q).repl
         \o SubFrom(step, s, PatternMatch(step, s, i, reserved, q).end + 1, reserved, q)

SubFrom(step, s, pos, reserved, q) ==
    SubAt(step, s, pos, FirstMatch(step, s, pos, reserved, q), reserved, q)

re_sub(step, s, reserved, q) == SubFrom(step, s, 1, reserved, q)

RECURSIVE ForEachReserved(_, _, _, _, _)
\* for reserved in reserved_aliases: transformed = re.sub(...)
\* (an empty text has nothing to rewrite)
ForEachReserved(step, transformed, reserved_aliases, k, q) ==
    IF k > Len(reserved_aliases) \/ transformed = "" THEN transformed
    ELSE ForEachReserved(step, re_sub(step, transformed, reserved_aliases[k], q),
                         reserved_aliases, k + 1, q)

transform_sql_for_duckdb(sql) ==
    ForEachReserved(2, ForEachReserved(1, sql, reserved_aliases_duckdb, 1, DoubleQuote),
                    reserved_aliases_duckdb, 1, DoubleQuote)

transform_sql_for_mysql(sql) ==
    ForEachReserved(3,
        ForEachReserved(2, ForEachReserved(1, sql, reserved_aliases_mysql, 1, Backtick),
                        reserved_aliases_mysql, 1, Backtick),
        reserved_aliases_mysql, 1, Backtick)

(***************************************************************************)
(* JSON payloads (the result of json.loads, and the dicts the code builds).*)
(* A value carries its Python type: t is "dict", "list", "str", "int",     *)
(* "float" or "null" and v the value, a dict being a function from its     *)
(* keys and a float being counted in thousandths.                          *)
(***************************************************************************)
JObj(d) == [t |-> "dict", v |-> d]
JArr(items) == [t |-> "list", v |-> items]
JStr(text) == [t |-> "str", v |-> text]
JInt(n) == [t |-> "int", v |-> n]
JFloat(thousandths) == [t |-> "float", v |-> thousandths]
JNull == [t |-> "null", v |-> 0]

\* the Python value a node field is given when it is assigned a JSON value
\* as it is: a str, a number or None; a dict or list stays a JSON value
PyValue(j) ==
    IF j.t = "null" THEN None
    ELSE IF j.t \in {"str", "int", "float"} THEN j.v
    ELSE j

\* bool(j)
Truthy(j) ==
    CASE j.t = "null" -> FALSE
      [] j.t = "str" -> j.v # ""
      [] j.t \in {"int", "float"} -> j.v # 0
      [] j.t = "list" -> j.v # <<>>
      [] j.t = "dict" -> DOMAIN j.v # {}

\* key in d, for a dict d
HasKey(d, key) == key \in DOMAIN d.v

\* d.get(key, default), for a dict d
Get(d, key, default) == IF HasKey(d, key) THEN d.v[key] ELSE default

Raised(exception) == [ok |-> FALSE, raised |-> exception]

\* int(s) of a str: surrounding whitespace and a sign are accepted
IntOfText(s) ==
    IF Unsigned(Strip(s)) # "" /\ AllDigits(Unsigned(Strip(s)))
    THEN Number(IF MatchAt(Strip(s), 1, "-") THEN 0 - DigitsVal(Unsigned(Strip(s)))
                ELSE DigitsVal(Unsigned(Strip(s))))
    ELSE ValueError

\* int(j): TypeError for None, a list or a dict; a float is truncated
PyInt(j) ==
    CASE j.t = "str" -> IntOfText(j.v)
      [] j.t = "int" -> Number(j.v)
      [] j.t = "float" -> Number(IF j.v >= 0 THEN j.v \div Milli ELSE 0 - ((0 - j.v) \div Milli))
      [] OTHER -> Raised("TypeError")

RECURSIVE IntLog10(_)
\* math.log10(c) for c >= 1; exact on the powers of ten, which are the
\* cardinalities of the model's payloads (the whole part of it elsewhere)
IntLog10(c) == IF c < 10 THEN 0 ELSE 1 + IntLog10(c \div 10)

(***************************************************************************)
(* duckdb.py: _parse_duckdb_json_plan.  The outcome of a call is a node,   *)
(* Returned(node), or an exception, Raised(e).                             *)
(***************************************************************************)
Returned(node) == [ok |-> TRUE, node |-> node]

\* node.cost from extra_info.get('Estimated Cardinality')
CardinalityCost(estimated_cardinality) ==
    IF Truthy(estimated_cardinality)
    THEN IF PyInt(estimated_cardinality).ok
         THEN IntLog10(Max({PyInt(estimated_cardinality).val, 1})) * 1000 * Milli
         ELSE SentinelCost
    ELSE SentinelCost

RECURSIVE IntText(_)
\* str(n) for an int n
IntText(n) ==
    IF n < 0 THEN "-" \o IntText(0 - n)
    ELSE IF n < 10 THEN Ch(Digits, n + 1)
    ELSE IntText(n \div 10) \o Ch(Digits, (n % 10) + 1)

RECURSIVE PyRepr(_)
\* repr(j) for a str, an int, None and a list of them
PyRepr(j) ==
    CASE j.t = "str" -> "'" \o j.v \o "'"
      [] j.t = "int" -> IntText(j.v)
      [] j.t = "null" -> "None"
      [] j.t = "list" -> "[" \o JoinWith([k \in 1..Len(j.v) |-> PyRepr(j.v[k])], ", ") \o "]"

\* str(j)
PyStr(j) == IF j.t = "str" THEN j.v ELSE PyRepr(j)

\* str(filter_value) if filter_value is not None else None
FilterText(filter_value) ==
    IF filter_value.t = "null" THEN None ELSE PyStr(filter_value)

\* the optional entry of node.info copied from extra_info
OptionalEntry(key, extra_info, from) ==
    IF HasKey(extra_info, from) THEN key :> PyValue(extra_info.v[from]) ELSE EmptyDict

\* the node of a payload node without its children
JsonNode(node_name, extra_info) ==
    [Node(PyValue(node_name), CardinalityCost(Get(extra_info, "Estimated Cardinality", JNull)))
     EXCEPT
        !.table_name = IF HasKey(extra_info, "Table")
                       THEN PyValue(extra_info.v["Table"]) ELSE None,
        !.table_alias = IF HasKey(extra_info, "Table")
                        THEN PyValue(extra_info.v["Table"]) ELSE None,
        !.info = OptionalEntry("join_conditions", extra_info, "Conditions")
                 @@ OptionalEntry("join_type", extra_info, "Join Type")
                 @@ (IF HasKey(extra_info, "Filters")
                     THEN "filter" :> FilterText(extra_info.v["Filters"])
                     ELSE EmptyDict)
                 @@ ("database_system" :> "duckdb")
                 @@ ("duckdb_extra" :> extra_info)]

\* a loop that puts each child in front of the earlier ones
WithChildren_Reversed(node, parsed) ==
    IF \E k \in 1..Len(parsed) : ~parsed[k].ok
    THEN parsed[Min({k \in 1..Len(parsed) : ~parsed[k].ok})]
    ELSE Returned([node EXCEPT
                      !.children = [k \in 1..Len(parsed) |-> parsed[Len(parsed) + 1 - k].node]])

\* for child_json in children: node.children.append(child_node); the first
\* child that raises ends the call
WithChildren(node, parsed) ==
    IF \E k \in 1..Len(parsed) : ~parsed[k].ok
    THEN parsed[Min({k \in 1..Len(parsed) : ~parsed[k].ok})]
    ELSE Returned([node EXCEPT !.children = [k \in 1..Len(parsed) |-> parsed[k].node]])

RECURSIVE parse_duckdb_json_plan(_)
\* the loop over json_node.get('children', []): a list is iterated; an
\* empty str or dict gives no child, another str or dict gives children
\* without .get, a number or None is not iterable
ParseChildren(node, children) ==
    CASE children.t = "list" ->
            WithChildren(node, [k \in 1..Len(children.v) |->
                                    parse_duckdb_json_plan(children.v[k])])
      [] children.t \in {"str", "dict"} ->
            IF Truthy(children) THEN Raised("AttributeError") ELSE Returned(node)
      [] OTHER -> Raised("TypeError")

parse_duckdb_json_plan(json_node) ==
    IF json_node.t # "dict" THEN Raised("AttributeError")
    ELSE IF Get(json_node, "extra_info", JObj(EmptyDict)).t # "dict"
    THEN Raised("AttributeError")
    ELSE ParseChildren(JsonNode(Get(json_node, "name", JStr("Unknown")),
                                Get(json_node, "extra_info", JObj(EmptyDict))),
                       Get(json_node, "children", JArr(<<>>)))

(***************************************************************************)
(* duckdb.py: ParseDuckDBPlanJson                                          *)
(***************************************************************************)
PlanNode(json_dict, plan) ==
    [Node(PyValue(Get(plan, "Node Type", JStr("Unknown"))),
          PyValue(Get(plan, "Total Cost", JFloat(0))))
     EXCEPT
        !.info = OptionalEntry("explain_text", plan, "explain_text")
                 @@ ("database_system" :> "duckdb")
                 @@ ("explain_json" :> json_dict)]

\* .get of a value that is not a dict raises AttributeError
ParseDuckDBPlanJson(json_dict) ==
    IF json_dict.t # "dict" THEN Raised("AttributeError")
    ELSE IF Get(json_dict, "Plan", JObj(EmptyDict)).t # "dict" THEN Raised("AttributeError")
    ELSE Returned(PlanNode(json_dict, Get(json_dict, "Plan", JObj(EmptyDict))))

(***************************************************************************)
(* duckdb.py: _parse_duckdb_text_explain.  A string of the module cannot   *)
(* hold the box-drawing characters of the pattern at duckdb.py:242: '|'    *)
(* stands for the vertical strokes, '=' for the horizontal strokes and '+' *)
(* for the corners and junctions.                                          *)
(***************************************************************************)
BoxChars == CharsOf("|=+")

UpperCh(c) ==
    IF InStr(c, CharsOf(LowerAlpha))
    THEN Ch(UpperAlpha, CHOOSE i \in 1..26 : Ch(LowerAlpha, i) = c)
    ELSE c

RECURSIVE UpperFrom(_, _)
UpperFrom(s, i) ==
    IF i > Len(s) THEN "" ELSE UpperCh(Ch(s, i)) \o UpperFrom(s, i + 1)

\* str.upper()
Upper(s) == UpperFrom(s, 1)

RECURSIVE WithoutFrom(_, _, _)
WithoutFrom(s, i, chars) ==
    IF i > Len(s) THEN ""
    ELSE (IF InStr(Ch(s, i), chars) THEN "" ELSE Ch(s, i)) \o WithoutFrom(s, i + 1, chars)

\* re.sub(r'[chars]', '', s) and s.replace(c, '')
Without(s, chars) == WithoutFrom(s, 1, chars)

RECURSIVE SplitLines(_)
\* raw_text.split('\n')
SplitLines(raw_text) ==
    IF Contains(raw_text, "\n")
    THEN <<Before(raw_text, "\n")>> \o SplitLines(After(raw_text, "\n"))
    ELSE <<raw_text>>

\* clean_line of a line
CleanLine(line) == Strip(Without(Strip(line), BoxChars))

main_operations == <<"HASH_JOIN", "NESTED_LOOP", "UNGROUPED_AGGREGATE", "AGGREGATE", "SORT">>
scan_operations == <<"SEQ_SCAN", "INDEX_SCAN">>
detail_operations == <<"FILTER", "Filters:">>

\* some op of the list is in the text
MentionsAny(ops, text) == \E k \in DOMAIN ops : Contains(text, ops[k])

\* len(clean_line.strip()) < 50
IsHeader(clean_line) == Len(Strip(clean_line)) < 50

\* node_type after the three loops over the operations, for one line: the
\* line replaces it when it names a main operation, else when it names a
\* scan operation, else when node_type is still the default and the line
\* names a detail operation
NodeTypeAfter(node_type, clean_line) ==
    IF MentionsAny(main_operations, Upper(clean_line)) /\ IsHeader(clean_line)
    THEN clean_line
    ELSE IF MentionsAny(scan_operations, Upper(clean_line)) /\ IsHeader(clean_line)
    THEN clean_line
    ELSE IF node_type = "DuckDB Plan"
            /\ MentionsAny(detail_operations, clean_line) /\ IsHeader(clean_line)
    THEN clean_line
    ELSE node_type

RowChars == DigitChars \cup {","}

\* re.search(r'~([\d,]+)\s+[Rr]ows', line).group(1)
row_match(line) ==
    LET Matches(i) ==
            LET e == RunEnd(line, i + 1, RowChars)
                w == RunEnd(line, e + 1, SpaceChars)
            IN  /\ e >= i + 1
                /\ w >= e + 1
                /\ (MatchAt(line, w + 1, "rows") \/ MatchAt(line, w + 1, "Rows"))
        hits == {i \in Occurrences(line, "~") : Matches(i)}
    IN  IF hits = {} THEN None
        ELSE SubSeq(line, Min(hits) + 1, RunEnd(line, Min(hits) + 1, RowChars))

\* int(row_match.group(1).replace(',', ''))
RowsOf(group) == IntOfText(Without(group, {","}))

\* re.search(r'Table:\s+(\w+)', line).group(1)
duckdb_table_match(line) ==
    LET key == "Table:"
        Matches(i) ==
            LET w == RunEnd(line, i + Len(key), SpaceChars)
            IN  w >= i + Len(key) /\ RunEnd(line, w + 1, WordChars) >= w + 1
        hits == {i \in Occurrences(line, key) : Matches(i)}
    IN  IF hits = {} THEN None
        ELSE LET a == RunEnd(line, Min(hits) + Len(key), SpaceChars) + 1
             IN  SubSeq(line, a, RunEnd(line, a, WordChars))

\* the locals before the loop over the lines
ExplainStart ==
    [node_type |-> "DuckDB Plan", total_cost |-> SentinelCost,
     estimated_rows |-> 1000, table_names |-> <<>>]

\* estimated_rows and total_cost after a line: a row estimate that int()
\* accepts replaces both, anything else leaves them
WithRows(st, line) ==
    IF row_match(line) # None /\ RowsOf(row_match(line)).ok
    THEN [st EXCEPT !.estimated_rows = RowsOf(row_match(line)).val,
                    !.total_cost = IntLog10(Max({RowsOf(row_match(line)).val, 1}))
                                   * 1000 * Milli]
    ELSE st

\* table_names.append(table_match.group(1))
WithTable(st, line) ==
    IF duckdb_table_match(line) # None
    THEN [st EXCEPT !.table_names = Append(@, duckdb_table_match(line))]
    ELSE st

\* one iteration of the loop over the lines
ExplainLineStep(st, line) ==
    WithTable(WithRows([st EXCEPT !.node_type = NodeTypeAfter(@, CleanLine(line))],
                       Strip(line)),
              Strip(line))

RECURSIVE ExplainLines(_, _)
ExplainLines(st, lines) ==
    IF lines = <<>> THEN st
    ELSE ExplainLines(ExplainLineStep(st, Head(lines)), Tail(lines))

\* node_type after the loop: a descriptive name when no operation was found
ExplainLabel(node_type, table_names) ==
    IF node_type = "DuckDB Plan" /\ table_names # <<>>
    THEN IF Len(table_names) = 1
         THEN "Scan " \o table_names[1]
         ELSE "Join (" \o JoinWith(SubSeq(table_names, 1, Min({3, Len(table_names)})), ", ")
              \o ")"
    ELSE node_type

\* the returned dict
ExplainDict(st, explain_text) ==
    JObj("Plan" :> JObj(("Node Type" :> JStr(ExplainLabel(st.node_type, st.table_names)))
                        @@ ("Total Cost" :> JFloat(st.total_cost))
                        @@ ("Rows" :> JInt(st.estimated_rows))
                        @@ ("Tables" :> JArr([k \in DOMAIN st.table_names |->
                                                  JStr(st.table_names[k])]))
                        @@ ("explain_text" :> JStr(explain_text))))

parse_duckdb_text_explain(explain_text) ==
    ExplainDict(ExplainLines(ExplainStart, SplitLines(explain_text)), explain_text)

(***************************************************************************)
(* SqlToPlanNode of duckdb.py and of mysql.py.  The engine's answer to the *)
(* EXPLAIN statement is Raises(text), the call raising an exception whose  *)
(* str() is text, or Answers(result), the fetched result: for DuckDB the   *)
(* loaded JSON of the second column, for MySQL the texts of the rows'      *)
(* first column.  The outcome of a call is Gives(node, json_dict), the     *)
(* returned pair, or Raised(e); closed tells whether the connection was    *)
(* closed on the way out.                                                  *)
(***************************************************************************)
Raises(text) == [kind |-> "raises", text |-> text]
Answers(result) == [kind |-> "answers", result |-> result]

\* a DuckDB result whose rows have one column: the texts of that column
AnswersText(rows) == [kind |-> "text", rows |-> rows]

Gives(node, json_dict) == [ok |-> TRUE, node |-> node, json_dict |-> json_dict]

\* finally: if should_close and conn: conn.close()
Finally(outcome, connection) == [closed |-> connection = None] @@ outcome

\* the failure of _get_or_create_connection, before the try block
ConnectFails == [closed |-> FALSE] @@ Raised("RuntimeError")

\* the minimal fallback structure of the except branch
duckdb_fallback(e) ==
    JObj("Plan" :> JObj(("Node Type" :> JStr("Error"))
                        @@ ("Total Cost" :> JFloat(0))
                        @@ ("Rows" :> JInt(0))
                        @@ ("error" :> JStr(e))))

\* json_dict after the inner try
duckdb_json_dict(answer) ==
    IF answer.kind = "raises" THEN duckdb_fallback(answer.text)
    ELSE IF answer.kind = "text"
    THEN parse_duckdb_text_explain(JoinWith(answer.rows, "\n"))
    ELSE answer.result

\* the parse into a node, of the JSON format or of the fallback format
duckdb_node(json_dict) ==
    IF json_dict.t = "list" /\ Len(json_dict.v) > 0
    THEN parse_duckdb_json_plan(json_dict.v[1])
    ELSE ParseDuckDBPlanJson(json_dict)

(***************************************************************************)
(* sql_parse/ast.py: FilterScansOrJoins, after the plan query utilities of *)
(* the specification: the nodes classified as scans or joins are kept, in  *)
(* their order, each below the nearest kept node that was above it.        *)
(***************************************************************************)
ScanCategories == {"Seq Scan", "Index Scan"}
JoinCategories == {"Nested Loop", "Hash Join"}

IsScanOrJoin(node) == node.node_type \in ScanCategories \cup JoinCategories

RECURSIVE Concat(_)
Concat(seqs) == IF seqs = <<>> THEN <<>> ELSE Head(seqs) \o Concat(Tail(seqs))

RECURSIVE Skeleton(_)
\* the kept trees at and below a node, from left to right
Skeleton(tree) ==
    IF IsScanOrJoin(tree)
    THEN <<[tree EXCEPT !.children =
                Concat([k \in 1..Len(tree.children) |-> Skeleton(tree.children[k])])]>>
    ELSE Concat([k \in 1..Len(tree.children) |-> Skeleton(tree.children[k])])

\* one kept tree is the result; a root that is not kept and has no single
\* kept tree below it stays as the holder of what is kept (a single node
\* when nothing is)
FilterScansOrJoins(tree) ==
    IF Len(Skeleton(tree)) = 1 THEN Skeleton(tree)[1]
    ELSE [tree EXCEPT !.children = Skeleton(tree)]

\* a return that prunes when the flag is not set
Pruned_FlagInverted(node, keep_scans_joins_only) ==
    IF keep_scans_joins_only THEN node ELSE FilterScansOrJoins(node)

\* if not keep_scans_joins_only: return node, json_dict
\* return plans_lib.FilterScansOrJoins(node), json_dict
Pruned(node, keep_scans_joins_only) ==
    IF ~keep_scans_joins_only THEN node ELSE FilterScansOrJoins(node)

\* the returned pair, or the exception of the parse
ReturnPair(parsed, json_dict, keep_scans_joins_only) ==
    IF parsed.ok THEN Gives(Pruned(parsed.node, keep_scans_joins_only), json_dict)
    ELSE parsed

duckdb_SqlToPlanNode(connection, connects, answer, keep_scans_joins_only) ==
    IF connection = None /\ ~connects THEN ConnectFails
    ELSE Finally(ReturnPair(duckdb_node(duckdb_json_dict(answer)), duckdb_json_dict(answer),
                            keep_scans_joins_only),
                 connection)

\* text_lines after the inner try
mysql_text_lines(answer) ==
    IF answer.kind = "raises" THEN <<"Error: " \o answer.text>>
    ELSE IF answer.result = <<>> THEN <<"No plan available">>
    ELSE SplitLines(JoinWith(SelectSeq(answer.result, LAMBDA row : row # ""), "\n"))

mysql_SqlToPlanNode(connection, connects, answer, keep_scans_joins_only) ==
    IF connection = None /\ ~connects THEN ConnectFails
    ELSE Finally(Gives(Pruned(parse_mysql_text_plan(mysql_text_lines(answer)),
                              keep_scans_joins_only),
                       [mysql_text_plan |-> mysql_text_lines(answer)]),
                 connection)

(***************************************************************************)
(* run.py: validate_engine, and sql_parse/workload.py: ParseSqlToNode and  *)
(* JoinOrderBenchmark._LoadQueries.  A query file is its path, its text    *)
(* and what the engine does when asked for its plan: whether a connection  *)
(* can be made, and the answer to the EXPLAIN statement.                   *)
(***************************************************************************)
SUPPORTED_ENGINES == <<"postgres", "duckdb", "mysql">>

Passes(value) == [ok |-> TRUE, value |-> value]

validate_engine(engine) ==
    IF engine \notin {SUPPORTED_ENGINES[k] : k \in DOMAIN SUPPORTED_ENGINES}
    THEN Raised("ValueError")
    ELSE Passes(TRUE)

\* s.rfind(c) + 1
LastIndex(s, c) == Max({0} \cup {i \in 1..Len(s) : Ch(s, i) = c})

\* os.path.basename(path)
Basename(path) == From(path, LastIndex(path, "/") + 1)

\* os.path.splitext(base)[0]: the extension starts at the last dot, unless
\* the name starts with it
SplitExtRoot(base) ==
    IF LastIndex(base, ".") > 1 THEN SubSeq(base, 1, LastIndex(base, ".") - 1) ELSE base

\* dbs/postgres.py: SqlToPlanNode, after the JSON-tree adapter of the
\* specification reduced to a plan of one node: the operator is classified,
\* and a failure gives a node labelled as an error, of cost 0, with the
\* failure text
postgres_SqlToPlanNode(answer) ==
    IF answer.kind = "raises"
    THEN Gives([Node("Error", 0) EXCEPT !.info = "error" :> answer.text], JNull)
    ELSE Gives(Node(map_mysql_operation_to_standard(answer.result.v["Node Type"].v),
                    answer.result.v["Total Cost"].v),
               answer.result)

\* the four entries of node.info set after the dispatch; node.GetOrParseSql()
\* is taken to leave the tree as it is
WithQueryInfo(node, file, json_dict) ==
    [node EXCEPT !.info = ("path" :> file.path)
                          @@ ("sql_str" :> file.sql_string)
                          @@ ("query_name" :> SplitExtRoot(Basename(file.path)))
                          @@ ("explain_json" :> json_dict)
                          @@ @]

\* the engine's SqlToPlanNode, called with the text alone
Dispatch(file, engine) ==
    CASE engine = "postgres" -> postgres_SqlToPlanNode(file.answer)
      [] engine = "duckdb" -> duckdb_SqlToPlanNode(None, file.connects, file.answer, FALSE)
      [] OTHER -> Raised("ValueError")

ParseSqlToNode(file, engine) ==
    IF Dispatch(file, engine).ok
    THEN Returned(WithQueryInfo(Dispatch(file, engine).node, file,
                                Dispatch(file, engine).json_dict))
    ELSE Raised(Dispatch(file, engine).raised)

\* [n for n in all_nodes if keep(n.info['path'])]
NodesWithPath(all_nodes, paths) ==
    SelectSeq(all_nodes, LAMBDA n : n.info["path"] \in paths)

\* the three lists _LoadQueries returns, after assert len(train_nodes) > 0
LoadedQueries(all_nodes, all_sql_set, test_sql_set) ==
    IF NodesWithPath(all_nodes, all_sql_set \ test_sql_set) = <<>>
    THEN Raised("AssertionError")
    ELSE [ok |-> TRUE,
          all_nodes |-> all_nodes,
          train_nodes |-> NodesWithPath(all_nodes, all_sql_set \ test_sql_set),
          test_nodes |-> NodesWithPath(all_nodes, test_sql_set)]

(***************************************************************************)
(* sql_parse/workload.py: WorkloadInfo.  Python orders str by code point;  *)
(* CodePoints lists the characters of the model's labels in that order.    *)
(***************************************************************************)
CodePoints == " ()-.0123456789:<=>" \o UpperAlpha \o "_" \o LowerAlpha

\* ord(c), up to the order
Ord(c) == CHOOSE i \in 1..Len(CodePoints) : Ch(CodePoints, i) = c

RECURSIVE StrLess(_, _)
\* a < b for two str
StrLess(a, b) ==
    IF b = "" THEN FALSE
    ELSE IF a = "" THEN TRUE
    ELSE IF Ch(a, 1) # Ch(b, 1) THEN Ord(Ch(a, 1)) < Ord(Ch(b, 1))
    ELSE StrLess(From(a, 2), From(b, 2))

RECURSIVE Insert(_, _)
\* the sorted list with one more element, after the elements equal to it
Insert(sorted_list, x) ==
    IF sorted_list = <<>> THEN <<x>>
    ELSE IF StrLess(x, Head(sorted_list)) THEN <<x>> \o sorted_list
    ELSE <<Head(sorted_list)>> \o Insert(Tail(sorted_list), x)

RECURSIVE sorted(_)
\* sorted(list(ops)) of a list
sorted(ops) == IF ops = <<>> THEN <<>> ELSE Insert(sorted(SubSeq(ops, 1, Len(ops) - 1)), ops[Len(ops)])

RECURSIVE ListOf(_)
\* list(a_set), in some order
ListOf(a_set) ==
    IF a_set = {} THEN <<>>
    ELSE <<CHOOSE x \in a_set : TRUE>> \o ListOf(a_set \ {CHOOSE x \in a_set : TRUE})

\* set(a_list)
SetOf(a_list) == {a_list[k] : k \in DOMAIN a_list}

\* sql_parse/ast.py: Node.get_table_id, the table identity of a node: its
\* alias, or its name when it has no alias
get_table_id(node) == IF node.table_alias # None THEN node.table_alias ELSE node.table_name

\* sql_parse/ast.py: Node.IsJoin, a node classified as a join
IsJoin(node) == node.node_type \in JoinCategories

\* the attributes the filters of a query name, by the text of the query
QueryAttributes ==
    ("SELECT * FROM title WHERE year > 2000" :> {"title.year"})
    @@ ("SELECT * FROM t, s WHERE t.id = s.id AND t.id > 1" :> {"t.id", "s.id"})

\* sql_parse/ast.py: Node.GetFilteredAttributes, the filterable attributes
\* of the node's query
GetFilteredAttributes(node) ==
    IF node.info["sql_str"] \in DOMAIN QueryAttributes
    THEN QueryAttributes[node.info["sql_str"]] ELSE {}

\* the sets of WorkloadInfo.__init__ before any node is visited; visited
\* records the calls of _fill, by the label of the node
NothingFilled ==
    [rel_names |-> {}, rel_ids |-> {}, scan_types |-> {}, join_types |-> {},
     all_ops |-> {}, all_attributes |-> {}, visited |-> <<>>]

\* the statements of _fill for one node, without the loop over the children
\* (all_filters is filled too, and is dropped when __init__ returns)
FillNode(sets, node) ==
    [sets EXCEPT
        !.all_ops = @ \cup {node.node_type},
        !.rel_names = IF node.table_name # None THEN @ \cup {node.table_name} ELSE @,
        !.rel_ids = IF node.table_name # None THEN @ \cup {get_table_id(node)} ELSE @,
        !.all_attributes = IF "sql_str" \in DOMAIN node.info
                           THEN @ \cup GetFilteredAttributes(node) ELSE @,
        !.scan_types = IF Contains(node.node_type, "Scan") THEN @ \cup {node.node_type} ELSE @,
        !.join_types = IF ~Contains(node.node_type, "Scan") /\ IsJoin(node)
                       THEN @ \cup {node.node_type} ELSE @,
        !.visited = Append(@, node.node_type)]

RECURSIVE fill(_, _)
RECURSIVE FillAll(_, _)
\* for c in nodes: _fill(root, c)
FillAll(sets, nodes) ==
    IF nodes = <<>> THEN sets ELSE FillAll(fill(sets, Head(nodes)), Tail(nodes))

\* a _fill without the loop over the children
fill_RootOnly(sets, node) == FillNode(sets, node)

\* _fill(root, node)
fill(sets, node) == FillAll(FillNode(sets, node), node.children)

\* np.asarray(sorted(list(a_set)))
SortedArray(a_set) == sorted(ListOf(a_set))

\* WorkloadInfo(nodes)
WorkloadInfo(nodes) ==
    [rel_names |-> SortedArray(FillAll(NothingFilled, nodes).rel_names),
     rel_ids |-> SortedArray(FillAll(NothingFilled, nodes).rel_ids),
     scan_types |-> SortedArray(FillAll(NothingFilled, nodes).scan_types),
     join_types |-> SortedArray(FillAll(NothingFilled, nodes).join_types),
     all_ops |-> SortedArray(FillAll(NothingFilled, nodes).all_ops),
     all_attributes |-> SortedArray(FillAll(NothingFilled, nodes).all_attributes),
     visited |-> FillAll(NothingFilled, nodes).visited]

\* an argument of SetPhysicalOps: None, or a list of labels
NoOps == [is_none |-> TRUE, ops |-> <<>>]
Ops(labels) == [is_none |-> FALSE, ops |-> labels]

\* an override that adds the labels to the ones the array holds
Override_Accumulates(old_types, ops) ==
    IF ops.is_none THEN old_types ELSE sorted(old_types \o ops.ops)

\* the override of one of the two arrays: None leaves it
Override(old_types, ops) == IF ops.is_none THEN old_types ELSE sorted(ops.ops)

\* new_all_ops before the final sort
NewAllOps(self, scan_types, join_types) ==
    SelectSeq(self.all_ops,
              LAMBDA op : op \notin SetOf(self.scan_types) /\ op \notin SetOf(self.join_types))
    \o scan_types \o join_types

\* a final statement without the set: np.asarray(sorted(new_all_ops))
SetPhysicalOps_NoSet(self, join_ops, scan_ops) ==
    [self EXCEPT
        !.scan_types = Override(self.scan_types, scan_ops),
        !.join_types = Override(self.join_types, join_ops),
        !.all_ops = sorted(NewAllOps(self, Override(self.scan_types, scan_ops),
                                     Override(self.join_types, join_ops)))]

\* WorkloadInfo.SetPhysicalOps(join_ops, scan_ops)
SetPhysicalOps(self, join_ops, scan_ops) ==
    [self EXCEPT
        !.scan_types = Override(self.scan_types, scan_ops),
        !.join_types = Override(self.join_types, join_ops),
        !.all_ops = SortedArray(SetOf(NewAllOps(self, Override(self.scan_types, scan_ops),
                                                Override(self.join_types, join_ops))))]

(***************************************************************************)
(* The dialect transform as a state machine: a SQL text is drawn for an    *)
(* engine and the engine's transform is applied to it, then to its own     *)
(* output; sq_out holds the outputs in order.                              *)
(***************************************************************************)
VARIABLES sq_engine, sq_sql, sq_out

sq_vars == <<sq_engine, sq_sql, sq_out>>

\* a SQL text is built from at most MaxParts phrases
MaxParts == 2

\* the transform is applied at most MaxApplications times in a row
MaxApplications == 2

AliasedSelect == "SELECT x FROM foo AS at WHERE at.y = 1"

SqlPhrases ==
    {"at.", "at.y", "foo as at ", "x  AS to", "cat.y ", "(a) AS order ", "at . y "}

SqlTexts ==
    {AliasedSelect} \cup {JoinWith(parts, "") : parts \in SeqsUpTo(SqlPhrases, MaxParts)}

SqInit ==
    /\ sq_engine \in {"duckdb", "mysql"}
    /\ sq_sql \in SqlTexts
    /\ sq_out = <<>>

\* the text the next application is given
Transformed == IF sq_out = <<>> THEN sq_sql ELSE sq_out[Len(sq_out)]

TransformForDuckdb ==
    /\ sq_engine = "duckdb"
    /\ Len(sq_out) < MaxApplications
    /\ sq_out' = Append(sq_out, transform_sql_for_duckdb(Transformed))
    /\ UNCHANGED <<sq_engine, sq_sql>>

TransformForMysql ==
    /\ sq_engine = "mysql"
    /\ Len(sq_out) < MaxApplications
    /\ sq_out' = Append(sq_out, transform_sql_for_mysql(Transformed))
    /\ UNCHANGED <<sq_engine, sq_sql>>

(***************************************************************************)
(* SqlToPlanNode as a state machine: the caller's connection argument, the *)
(* fate of the connection attempt and the engine's answer are drawn, and   *)
(* one call is made; ex_ret holds its outcome.  Of the connection attempt  *)
(* of _get_or_create_connection, ex_opened tells whether connect()         *)
(* returned a connection and ex_connects whether the validation query that *)
(* follows passed as well, so that the connection was returned.            *)
(***************************************************************************)
VARIABLES ex_engine, ex_connection, ex_connects, ex_opened, ex_answer, ex_keep, ex_ret

ex_vars == <<ex_engine, ex_connection, ex_connects, ex_opened, ex_answer, ex_keep, ex_ret>>

\* a JSON plan holds at most MaxJsonNodes nodes
MaxJsonNodes == 4

\* the payload nodes without their children: name and extra_info
NodeKinds ==
    << [name |-> JStr("HASH_JOIN"),
        extra_info |-> JObj(("Join Type" :> JStr("INNER"))
                            @@ ("Conditions" :> JStr("t.id = s.id"))
                            @@ ("Estimated Cardinality" :> JStr("1000")))],
       [name |-> JStr("SEQ_SCAN"),
        extra_info |-> JObj(("Table" :> JStr("t"))
                            @@ ("Estimated Cardinality" :> JStr("100"))
                            @@ ("Filters" :> JStr("id>1")))],
       [name |-> JStr("SEQ_SCAN"),
        extra_info |-> JObj(("Table" :> JStr("s"))
                            @@ ("Estimated Cardinality" :> JInt(0)))] >>

\* the plans of n nodes: node 1 is the root, the parent of a later node is
\* an earlier one, and a node's children are listed in increasing order
ParentVectors(n) == {par \in [2..n -> 1..(n - 1)] : \A i \in 2..n : par[i] < i}

ChildrenOf(par, i) ==
    LET cs == {c \in DOMAIN par : par[c] = i}
    IN  [k \in 1..Cardinality(cs) |->
            CHOOSE c \in cs : Cardinality({d \in cs : d < c}) = k - 1]

RECURSIVE JsonPlan(_, _, _)
JsonPlan(par, kind, i) ==
    JObj([name |-> NodeKinds[kind[i]].name,
          extra_info |-> NodeKinds[kind[i]].extra_info,
          children |-> JArr([k \in 1..Len(ChildrenOf(par, i)) |->
                                JsonPlan(par, kind, ChildrenOf(par, i)[k])])])

JsonPlans ==
    UNION {{JsonPlan(par, kind, 1) : par \in ParentVectors(n),
                                     kind \in [1..n -> DOMAIN NodeKinds]} :
           n \in 1..MaxJsonNodes}

ErrorTexts == {"Table with name foo does not exist!", "syntax error near '->'"}

\* a payload node of the given entries
JsonLeaf(name, extra_info) ==
    JObj([name |-> name, extra_info |-> extra_info, children |-> JArr(<<>>)])

\* payloads of an unexpected shape: null, a node that is not an object, an
\* extra_info or a children entry that is not an object or an array
MalformedPayloads ==
    { JNull,
      JArr(<<JNull>>),
      JArr(<<JObj([name |-> JStr("SEQ_SCAN"), extra_info |-> JStr("t")])>>),
      JArr(<<JObj([name |-> JStr("SEQ_SCAN"), children |-> JNull])>>),
      JArr(<<JObj([name |-> JStr("SEQ_SCAN"), children |-> JObj("name" :> JStr("x"))])>>) }

\* one-node payloads with an empty or missing name, a cardinality that is
\* no number, the cardinalities "1", "0" and "10", and filters and join
\* conditions that are a list, an object or null
EdgePayloads ==
    { JArr(<<JsonLeaf(JStr(""), JObj(EmptyDict))>>),
      JArr(<<JObj([extra_info |-> JObj("Table" :> JStr("t"))])>>),
      JArr(<<JsonLeaf(JStr("PROJECTION"), JObj("Estimated Cardinality" :> JStr("abc")))>>),
      JArr(<<JsonLeaf(JStr("PROJECTION"), JObj("Estimated Cardinality" :> JArr(<<JInt(1)>>)))>>),
      JArr(<<JsonLeaf(JStr("PROJECTION"), JObj("Estimated Cardinality" :> JStr("1")))>>),
      JArr(<<JsonLeaf(JStr("PROJECTION"), JObj("Estimated Cardinality" :> JStr("0")))>>),
      JArr(<<JsonLeaf(JStr("PROJECTION"), JObj("Estimated Cardinality" :> JStr("10")))>>),
      JArr(<<JsonLeaf(JStr("HASH_JOIN"), JObj("Table" :> JStr("t")))>>),
      JArr(<<JsonLeaf(JStr("FILTER"), JObj("Filters" :> JArr(<<JStr("id>1"), JStr("id<9")>>)))>>),
      JArr(<<JsonLeaf(JStr("FILTER"), JObj("Filters" :> JNull))>>),
      JArr(<<JsonLeaf(JStr("HASH_JOIN"),
                      JObj("Conditions" :> JArr(<<JStr("t.id = s.id")>>)))>>),
      JArr(<<JsonLeaf(JStr("HASH_JOIN"),
                      JObj("Conditions" :> JObj("left" :> JStr("t.id"))))>>),
      JArr(<<JsonLeaf(JStr("HASH_JOIN"), JObj("Conditions" :> JNull))>>) }

\* a one-column result holds at most MaxBoxLines rows
MaxBoxLines == 3

\* the lines of a box-drawing plan: box headers, table names, row estimates
BoxLines ==
    {"| HASH_JOIN |", "| SEQ_SCAN |", "| Table: t |", "| Table: s |",
     "| ~1,000 rows |", "| ~100 rows |"}

\* one-column results: every list of box lines, one row per line, and rows
\* of several lines with a border, a detail line, an estimate without a
\* digit, four tables, a header in lower case and a line of 50 characters
BoxAnswers ==
    {AnswersText(rows) : rows \in UNION {[1..k -> BoxLines] : k \in 0..MaxBoxLines}}
    \cup {AnswersText(rows) : rows \in
            {<<"+=========+\n| Filters: id>1 |\n| ~, rows |\n+=========+">>,
             <<"| Table: a |\n| Table: b |\n| Table: c |\n| Table: d |">>,
             <<"| sort by x |\n| ~0 Rows |">>,
             <<"| HASH_JOIN on a condition of 50 characters in all . |",
               "| Table: t |">>}}

DuckdbAnswers ==
    {Raises(e) : e \in ErrorTexts}
    \cup {Answers(JArr(<<plan>>)) : plan \in JsonPlans}
    \cup {Answers(JArr(<<>>)), Answers(JObj(EmptyDict))}
    \cup {Answers(payload) : payload \in MalformedPayloads \cup EdgePayloads}
    \cup BoxAnswers

MysqlAnswers ==
    {Raises(e) : e \in ErrorTexts}
    \cup {Answers(rows) : rows \in
            {<<>>,
             <<"-> Table scan on title (cost=120.5 rows=1000)\n    -> Filter: year > 2000 (cost=50.0 rows=10)">>,
             <<"-> Limit: 5 row(s)", "", "    -> Sort: t.id">>,
             <<"-> Nested loop inner join (cost=9.5 rows=4)\n    -> Index scan on t using idx (cost=1.5 rows=3)\n    -> Index lookup on s using idx (cost=0.25 rows=1)">>,
             <<"-> Sort: t.id (cost=-5.0 rows=1)\n    ->  (cost=2.0 rows=1)">>,
             <<"-> Table scan on t (cost=1.2.3 rows=3)">>,
             <<"-> Sort: t.id (cost=12.0 rows=4)",
               "    -> Nested loop inner join (cost=9.5 rows=4)",
               "        -> Filter: t.id > 1 (cost=2.0 rows=3)",
               "            -> Table scan on t (cost=1.5 rows=3)",
               "        -> Index lookup on s using idx (cost=0.25 rows=1)">>,
             <<"-> Nested loop inner join (cost=9.5 rows=4)",
               "    -> Table scan on t (cost=1.5 rows=3)",
               "        -> Index lookup on s using idx (cost=0.25 rows=1)">>}}

NotCalled == [called |-> FALSE]

ExInit ==
    /\ ex_engine \in {"duckdb", "mysql"}
    /\ ex_connection \in {None, "connection"}
    /\ ex_connects \in BOOLEAN
    /\ ex_opened \in {opened \in BOOLEAN :
                        /\ ex_connection # None => ~opened
                        /\ ex_connection = None /\ ex_connects => opened}
    /\ ex_answer \in IF ex_engine = "duckdb" THEN DuckdbAnswers ELSE MysqlAnswers
    /\ ex_keep \in BOOLEAN
    /\ ex_ret = NotCalled

DuckdbSqlToPlanNode ==
    /\ ex_engine = "duckdb"
    /\ ex_ret = NotCalled
    /\ ex_ret' = duckdb_SqlToPlanNode(ex_connection, ex_connects, ex_answer, ex_keep)
    /\ UNCHANGED <<ex_engine, ex_connection, ex_connects, ex_opened, ex_answer, ex_keep>>

MysqlSqlToPlanNode ==
    /\ ex_engine = "mysql"
    /\ ex_ret = NotCalled
    /\ ex_ret' = mysql_SqlToPlanNode(ex_connection, ex_connects, ex_answer, ex_keep)
    /\ UNCHANGED <<ex_engine, ex_connection, ex_connects, ex_opened, ex_answer, ex_keep>>

(***************************************************************************)
(* The loading of a workload as a state machine: run.py validates the      *)
(* engine (a caller may also build the workload without), then             *)
(* _LoadQueries parses the sorted query files one by one and returns.      *)
(***************************************************************************)
VARIABLES ld_engine, ld_files, ld_test, ld_valid, ld_nodes, ld_ret

ld_vars == <<ld_engine, ld_files, ld_test, ld_valid, ld_nodes, ld_ret>>

\* a workload holds at most MaxFiles query files
MaxFiles == 2

EngineNames == {"postgres", "duckdb", "mysql", "sqlite"}

\* sorted(all_sql_set)
QueryPaths == <<"job/1a.sql", "job/1b.sql", "job/2a.sql">>

PostgresPlan ==
    JObj(("Node Type" :> JStr("Seq Scan")) @@ ("Total Cost" :> JFloat(120500)))

\* what the engine answers for a file
FileAnswers(engine) ==
    IF engine = "postgres"
    THEN {Raises("relation foo does not exist"), Answers(PostgresPlan)}
    ELSE {Raises("Table with name foo does not exist!"),
          Answers(JArr(<<JsonLeaf(JStr("SEQ_SCAN"), JObj("Table" :> JStr("t")))>>)),
          Answers(JArr(<<>>))}

QueryFiles(engine, n) ==
    {[k \in 1..n |-> [path |-> QueryPaths[k], sql_string |-> "SELECT 1",
                      connects |-> does[k].connects, answer |-> does[k].answer]] :
        does \in [1..n -> [connects : BOOLEAN, answer : FileAnswers(engine)]]}

LdInit ==
    /\ ld_engine \in EngineNames
    /\ ld_files \in UNION {QueryFiles(ld_engine, n) : n \in 0..MaxFiles}
    /\ ld_test \in SUBSET {ld_files[k].path : k \in DOMAIN ld_files}
    /\ ld_valid = NotCalled
    /\ ld_nodes = <<>>
    /\ ld_ret = NotCalled

\* run.py: validate_engine(engine), before the workload is built
ValidateEngine ==
    /\ ld_valid = NotCalled
    /\ ld_nodes = <<>>
    /\ ld_ret = NotCalled
    /\ ld_valid' = [called |-> TRUE] @@ validate_engine(ld_engine)
    /\ UNCHANGED <<ld_engine, ld_files, ld_test, ld_nodes, ld_ret>>

\* the workload is built unless the validation raised
Loading ==
    /\ ld_ret = NotCalled
    /\ IF ld_valid = NotCalled THEN TRUE ELSE ld_valid.ok

\* the file the list comprehension is at
NextFile == ld_files[Len(ld_nodes) + 1]

\* one element of [ParseSqlToNode(sqlfile, p.engine) for sqlfile in all_sql_list]
LoadQuery ==
    /\ Loading
    /\ Len(ld_nodes) < Len(ld_files)
    /\ ParseSqlToNode(NextFile, ld_engine).ok
    /\ ld_nodes' = Append(ld_nodes, ParseSqlToNode(NextFile, ld_engine).node)
    /\ UNCHANGED <<ld_engine, ld_files, ld_test, ld_valid, ld_ret>>

\* ParseSqlToNode raises: the exception leaves _LoadQueries
LoadQueryRaises ==
    /\ Loading
    /\ Len(ld_nodes) < Len(ld_files)
    /\ ~ParseSqlToNode(NextFile, ld_engine).ok
    /\ ld_ret' = [called |-> TRUE] @@ ParseSqlToNode(NextFile, ld_engine)
    /\ UNCHANGED <<ld_engine, ld_files, ld_test, ld_valid, ld_nodes>>

\* the split into train and test nodes, and the return
ReturnQueries ==
    /\ Loading
    /\ Len(ld_nodes) = Len(ld_files)
    /\ ld_ret' = [called |-> TRUE]
                  @@ LoadedQueries(ld_nodes, {ld_files[k].path : k \in DOMAIN ld_files}, ld_test)
    /\ UNCHANGED <<ld_engine, ld_files, ld_test, ld_valid, ld_nodes>>

(***************************************************************************)
(* WorkloadInfo as a state machine: a list of plan trees is drawn, the     *)
(* object is constructed from it, and SetPhysicalOps is called on it with  *)
(* drawn arguments.                                                        *)
(***************************************************************************)
VARIABLES wi_nodes, wi_self, wi_calls, wi_args

wi_vars == <<wi_nodes, wi_self, wi_calls, wi_args>>

\* a workload holds at most MaxTrees plan trees
MaxTrees == 2

\* SetPhysicalOps is called at most MaxOverrides times
MaxOverrides == 2

\* the query nodes of four files, as ParseSqlToNode gives them
QueryTrees ==
    { WithQueryInfo(parse_mysql_text_plan(
                        <<"-> Table scan on title (cost=120.5 rows=1000)",
                          "    -> Filter: year > 2000 (cost=50.0 rows=10)">>),
                    [path |-> "job/1a.sql", sql_string |-> "SELECT * FROM title WHERE year > 2000"],
                    JNull),
      WithQueryInfo(parse_mysql_text_plan(
                        <<"-> Sort: t.id (cost=12.0 rows=4)",
                          "    -> Nested loop inner join (cost=9.5 rows=4)",
                          "        -> Table scan on t (cost=1.5 rows=3)",
                          "            -> Index lookup on s using idx (cost=0.25 rows=1)">>),
                    [path |-> "job/1b.sql",
                     sql_string |-> "SELECT * FROM t, s WHERE t.id = s.id AND t.id > 1"],
                    JNull),
      WithQueryInfo(parse_duckdb_json_plan(JsonPlan((2 :> 1) @@ (3 :> 1), <<1, 2, 3>>, 1)).node,
                    [path |-> "job/2a.sql",
                     sql_string |-> "SELECT * FROM t, s WHERE t.id = s.id AND t.id > 1"],
                    JArr(<<JsonPlan((2 :> 1) @@ (3 :> 1), <<1, 2, 3>>, 1)>>)),
      WithQueryInfo(Node("Hash Join", 0),
                    [path |-> "job/2b.sql", sql_string |-> "SELECT 1"], JNull) }

OpsArguments ==
    {NoOps, Ops(<<>>), Ops(<<"Seq Scan", "Sort">>),
     Ops(<<"Nested Loop", "Hash Join", "Hash Join">>),
     Ops(<<"Seq Scan", "Index Only Scan">>)}

NotConstructed == [constructed |-> FALSE]

\* the arguments of the last call of SetPhysicalOps
NoArguments == [join_ops |-> NoOps, scan_ops |-> NoOps]

WiInit ==
    /\ wi_nodes \in SeqsUpTo(QueryTrees, MaxTrees)
    /\ wi_self = NotConstructed
    /\ wi_calls = 0
    /\ wi_args = NoArguments

\* self.workload_info = WorkloadInfo(query_nodes)
Construct ==
    /\ wi_self = NotConstructed
    /\ wi_self' = [constructed |-> TRUE] @@ WorkloadInfo(wi_nodes)
    /\ UNCHANGED <<wi_nodes, wi_calls, wi_args>>

\* workload_info.SetPhysicalOps(join_ops, scan_ops)
CallSetPhysicalOps ==
    /\ wi_self # NotConstructed
    /\ wi_calls < MaxOverrides
    /\ \E join_ops \in OpsArguments, scan_ops \in OpsArguments :
           /\ wi_self' = SetPhysicalOps(wi_self, join_ops, scan_ops)
           /\ wi_args' = [join_ops |-> join_ops, scan_ops |-> scan_ops]
    /\ wi_calls' = wi_calls + 1
    /\ UNCHANGED wi_nodes

(***************************************************************************)
(* The cost of the JSON adapter as a state machine: two cardinalities are  *)
(* drawn, each is the 'Estimated Cardinality' of a payload node given to   *)
(* _parse_duckdb_json_plan, and cc_cost holds the costs of the nodes in    *)
(* order.                                                                  *)
(***************************************************************************)
VARIABLES cc_cardinality, cc_cost

cc_vars == <<cc_cardinality, cc_cost>>

\* a cardinality has at most MaxDigits + 1 digits
MaxDigits == 3

\* the cardinalities: 0 and the powers of ten, as numbers and as digit
\* strings
Cardinalities ==
    LET counts == {0} \cup {Pow10(k) : k \in 0..MaxDigits}
    IN  {JInt(c) : c \in counts} \cup {JStr(IntText(c)) : c \in counts}

CcInit ==
    /\ cc_cardinality \in [1..2 -> Cardinalities]
    /\ cc_cost = <<>>

\* node = _parse_duckdb_json_plan(json_node); node.cost
SynthesizeCost ==
    /\ Len(cc_cost) < Len(cc_cardinality)
    /\ cc_cost' = Append(cc_cost,
                         parse_duckdb_json_plan(
                             JsonLeaf(JStr("SEQ_SCAN"),
                                      JObj("Estimated Cardinality"
                                           :> cc_cardinality[Len(cc_cost) + 1]))).node.cost)
    /\ UNCHANGED cc_cardinality

(***************************************************************************)
(* The specifications, one per component; the components share no state.   *)
(***************************************************************************)
vars == <<cl_vars, tp_vars, sq_vars, ex_vars, ld_vars, wi_vars, cc_vars>>

ClIdle == cl_in = "" /\ cl_out = <<>>

TpIdle ==
    /\ tp_lines = <<>>
    /\ tp_line_num = 0
    /\ tp_st = ParserStart
    /\ tp_ret = NotReturned

SqIdle == sq_engine = "" /\ sq_sql = "" /\ sq_out = <<>>

ExIdle ==
    /\ ex_engine = ""
    /\ ex_connection = None
    /\ ex_connects = FALSE
    /\ ex_opened = FALSE
    /\ ex_answer = Answers(<<>>)
    /\ ex_keep = FALSE
    /\ ex_ret = NotCalled

LdIdle ==
    /\ ld_engine = ""
    /\ ld_files = <<>>
    /\ ld_test = {}
    /\ ld_valid = NotCalled
    /\ ld_nodes = <<>>
    /\ ld_ret = NotCalled

WiIdle ==
    /\ wi_nodes = <<>>
    /\ wi_self = NotConstructed
    /\ wi_calls = 0
    /\ wi_args = NoArguments

CcIdle == cc_cardinality = <<>> /\ cc_cost = <<>>

\* the operator classification
InitClassify == ClInit /\ TpIdle /\ SqIdle /\ ExIdle /\ LdIdle /\ WiIdle /\ CcIdle

NextClassify == Classify /\ UNCHANGED <<tp_vars, sq_vars, ex_vars, ld_vars, wi_vars, cc_vars>>

SpecClassify == InitClassify /\ [][NextClassify]_vars

\* the indented-text adapter
InitTextPlan == TpInit /\ ClIdle /\ SqIdle /\ ExIdle /\ LdIdle /\ WiIdle /\ CcIdle

NextTextPlan ==
    \/ ParseMarkerLine /\ UNCHANGED <<cl_vars, sq_vars, ex_vars, ld_vars, wi_vars, cc_vars>>
    \/ SkipLine /\ UNCHANGED <<cl_vars, sq_vars, ex_vars, ld_vars, wi_vars, cc_vars>>
    \/ ReturnPlan /\ UNCHANGED <<cl_vars, sq_vars, ex_vars, ld_vars, wi_vars, cc_vars>>

SpecTextPlan == InitTextPlan /\ [][NextTextPlan]_vars

\* the dialect transforms
InitTransform == SqInit /\ ClIdle /\ TpIdle /\ ExIdle /\ LdIdle /\ WiIdle /\ CcIdle

NextTransform ==
    \/ TransformForDuckdb /\ UNCHANGED <<cl_vars, tp_vars, ex_vars, ld_vars, wi_vars, cc_vars>>
    \/ TransformForMysql /\ UNCHANGED <<cl_vars, tp_vars, ex_vars, ld_vars, wi_vars, cc_vars>>

SpecTransform == InitTransform /\ [][NextTransform]_vars

\* SqlToPlanNode of the two engines
InitExplain == ExInit /\ ClIdle /\ TpIdle /\ SqIdle /\ LdIdle /\ WiIdle /\ CcIdle

NextExplain ==
    \/ DuckdbSqlToPlanNode /\ UNCHANGED <<cl_vars, tp_vars, sq_vars, ld_vars, wi_vars, cc_vars>>
    \/ MysqlSqlToPlanNode /\ UNCHANGED <<cl_vars, tp_vars, sq_vars, ld_vars, wi_vars, cc_vars>>

SpecExplain == InitExplain /\ [][NextExplain]_vars

\* the loading of a workload
InitLoad == LdInit /\ ClIdle /\ TpIdle /\ SqIdle /\ ExIdle /\ WiIdle /\ CcIdle

NextLoad ==
    \/ ValidateEngine /\ UNCHANGED <<cl_vars, tp_vars, sq_vars, ex_vars, wi_vars, cc_vars>>
    \/ LoadQuery /\ UNCHANGED <<cl_vars, tp_vars, sq_vars, ex_vars, wi_vars, cc_vars>>
    \/ LoadQueryRaises /\ UNCHANGED <<cl_vars, tp_vars, sq_vars, ex_vars, wi_vars, cc_vars>>
    \/ ReturnQueries /\ UNCHANGED <<cl_vars, tp_vars, sq_vars, ex_vars, wi_vars, cc_vars>>

SpecLoad == InitLoad /\ [][NextLoad]_vars

\* WorkloadInfo
InitWorkloadInfo ==
    WiInit /\ ClIdle /\ TpIdle /\ SqIdle /\ ExIdle /\ LdIdle /\ CcIdle

NextWorkloadInfo ==
    \/ Construct /\ UNCHANGED <<cl_vars, tp_vars, sq_vars, ex_vars, ld_vars, cc_vars>>
    \/ CallSetPhysicalOps /\ UNCHANGED <<cl_vars, tp_vars, sq_vars, ex_vars, ld_vars, cc_vars>>

SpecWorkloadInfo == InitWorkloadInfo /\ [][NextWorkloadInfo]_vars

\* the cost synthesized from a cardinality
InitCost == CcInit /\ ClIdle /\ TpIdle /\ SqIdle /\ ExIdle /\ LdIdle /\ WiIdle

NextCost ==
    SynthesizeCost /\ UNCHANGED <<cl_vars, tp_vars, sq_vars, ex_vars, ld_vars, wi_vars>>

SpecCost == InitCost /\ [][NextCost]_vars

(***************************************************************************)
(* Properties of the indented-text adapter.                                *)
(***************************************************************************)
\* the lines the loop has taken so far that hold the marker, in order: the
\* k-th of them made node k
SeenMarkerLines ==
    SelectSeq(SubSeq(tp_lines, 1, tp_line_num), LAMBDA l : Contains(l, "->"))

LevelOfNode(n) == IndentLevel(SeenMarkerLines[n])

NodeIds == 1..Len(tp_st.heap)

\* the nodes that list n among their children
ParentsOf(n) ==
    {p \in NodeIds : \E k \in 1..Len(tp_st.heap[p].children) : tp_st.heap[p].children[k] = n}

RECURSIVE IsAncestor(_, _)
IsAncestor(a, n) == \E p \in ParentsOf(n) : p = a \/ (p < n /\ IsAncestor(a, p))

\* the nodes seen before n at a given level
SeenAtLevel(n, level) == {m \in 1..(n - 1) : LevelOfNode(m) = level}

\* no marker line shallower than level was seen after node m and before node n
NoneShallowerBetween(m, n, level) ==
    \A k \in (m + 1)..(n - 1) : LevelOfNode(k) >= level

\* n was not attached beside an earlier child of a shallower level
NoShallowerSibling(n) ==
    \A p \in ParentsOf(n) :
        \A k \in 1..Len(tp_st.heap[p].children) :
            LET c == tp_st.heap[p].children[k]
            IN  c < n => LevelOfNode(c) >= LevelOfNode(n)

\* C1 as stated: every marker line at level L >= 1 is attached as a
\* descendant of the most recently seen node at level L-1, and never as a
\* sibling of a node at a shallower level, for every sequence of lines.
C1_AsStated ==
    \A n \in NodeIds :
        LevelOfNode(n) >= 1 /\ n >= 2 =>
            /\ SeenAtLevel(n, LevelOfNode(n) - 1) # {} =>
                   IsAncestor(Max(SeenAtLevel(n, LevelOfNode(n) - 1)), n)
            /\ NoShallowerSibling(n)

\* C1, amended: a marker line at level L >= 1 is attached as a descendant of
\* the most recently seen node at level L-1 provided no marker line
\* shallower than L-1 came between that node and the line; it is never
\* attached as a sibling of an earlier node at a shallower level.
C1_DescendantOfPreviousLevel ==
    \A n \in NodeIds :
        LevelOfNode(n) >= 1 /\ n >= 2 =>
            /\ \A m \in SeenAtLevel(n, LevelOfNode(n) - 1) :
                   /\ m = Max(SeenAtLevel(n, LevelOfNode(n) - 1))
                   /\ NoneShallowerBetween(m, n, LevelOfNode(n) - 1)
                   => IsAncestor(m, n)
            /\ NoShallowerSibling(n)

\* a line at level 1 whose previous-level node is an ancestor but not the
\* parent: it was attached below an earlier line of its own level
C1_Witness ==
    \E n \in NodeIds :
        /\ n >= 2 /\ LevelOfNode(n) >= 1
        /\ \E m \in SeenAtLevel(n, LevelOfNode(n) - 1) :
               /\ m = Max(SeenAtLevel(n, LevelOfNode(n) - 1))
               /\ NoneShallowerBetween(m, n, LevelOfNode(n) - 1)
               /\ IsAncestor(m, n)
               /\ m \notin ParentsOf(n)

RECURSIVE CountNodes(_)
CountNodes(tree) ==
    IF tree.children = <<>> THEN 1
    ELSE 1 + CountNodes([tree EXCEPT !.children = Tail(@)])
           + CountNodes(Head(tree.children)) - 1

\* how often n is listed as a child, over all nodes
ChildListings(n) ==
    Cardinality({pk \in NodeIds \X (1..Len(tp_st.heap)) :
                    /\ pk[2] <= Len(tp_st.heap[pk[1]].children)
                    /\ tp_st.heap[pk[1]].children[pk[2]] = n})

\* the tree shape of the nodes made so far, and of the result once returned
TreeShape ==
    /\ Len(tp_st.heap) = Len(SeenMarkerLines)
    /\ SeenMarkerLines # <<>> =>
           /\ tp_st.root_node = 1
           /\ ChildListings(1) = 0
           /\ \A n \in NodeIds \ {1} :
                  ChildListings(n) = 1 /\ ParentsOf(n) \subseteq 1..(n - 1)
           /\ tp_ret # NotReturned =>
                  /\ tp_ret = TreeOf(tp_st.heap, 1)
                  /\ CountNodes(tp_ret) = Len(SeenMarkerLines)

\* a step of the loop over a line without the marker changes neither the
\* stack nor the nodes
SkipLeavesStack ==
    /\ tp_line_num' = tp_line_num + 1
    /\ ~Contains(tp_lines[tp_line_num + 1], "->")
    => tp_st' = tp_st

\* C2: when the payload holds a marker line the result is a tree: the first
\* marker line is the single root, every other marker line gives one node
\* with one parent, there are as many nodes as lines containing '->', and
\* the lines without the marker create no node and leave the stack as it was.
C2_ResultIsTree == [](TreeShape) /\ [][SkipLeavesStack]_vars

\* a payload with marker lines and lines without the marker, parsed to the end
C2_Witness ==
    /\ tp_ret # NotReturned
    /\ Len(SeenMarkerLines) >= 3
    /\ Len(tp_lines) > Len(SeenMarkerLines)
    /\ CountNodes(tp_ret) = Len(SeenMarkerLines)

C8_Lines ==
    <<"-> Table scan on title (cost=120.5 rows=1000)",
      "    -> Filter: year > 2000 (cost=50.0 rows=10)">>

\* C8: the two lines of the example give a root Seq Scan on title of cost
\* 120.5 with exactly one child, a Filter of cost 50.0 whose info['filter']
\* is 'year > 2000'.
C8_TableScanWithFilter ==
    tp_lines = C8_Lines /\ tp_ret # NotReturned =>
        /\ tp_ret.node_type = "Seq Scan"
        /\ tp_ret.table_name = "title"
        /\ tp_ret.cost = 120 * Milli + 500
        /\ Len(tp_ret.children) = 1
        /\ tp_ret.children[1].node_type = "Filter"
        /\ tp_ret.children[1].cost = 50 * Milli
        /\ "filter" \in DOMAIN tp_ret.children[1].info
        /\ tp_ret.children[1].info["filter"] = "year > 2000"
        /\ tp_ret.children[1].children = <<>>

C8_Witness ==
    /\ tp_lines = C8_Lines
    /\ tp_ret # NotReturned
    /\ tp_ret.children[1].info["filter"] = "year > 2000"

\* every entry of the ancestor stack is a child of the entry below it
StackIsChain ==
    \A k \in 2..Len(tp_st.nodes_stack) :
        tp_st.nodes_stack[k - 1] \in ParentsOf(tp_st.nodes_stack[k])

\* the node on top of the ancestor stack
StackTop == tp_st.nodes_stack[Len(tp_st.nodes_stack)]

\* a step of the loop over a marker line more than one level deeper than
\* the node on top of the stack creates one node, appends it to the children
\* of that node and pushes it, and changes nothing else
DeepLineToStackTop ==
    /\ tp_line_num' = tp_line_num + 1
    /\ Contains(tp_lines[tp_line_num + 1], "->")
    /\ tp_st.nodes_stack # <<>>
    /\ IndentLevel(tp_lines[tp_line_num + 1]) > LevelOfNode(StackTop) + 1
    => /\ Len(tp_st'.heap) = Len(tp_st.heap) + 1
       /\ tp_st'.nodes_stack = Append(tp_st.nodes_stack, Len(tp_st.heap) + 1)
       /\ tp_st'.heap[StackTop].children =
              Append(tp_st.heap[StackTop].children, Len(tp_st.heap) + 1)
       /\ \A n \in NodeIds \ {StackTop} : tp_st'.heap[n] = tp_st.heap[n]
       /\ tp_st'.heap[Len(tp_st.heap) + 1].children = <<>>

\* C20: a marker line more than one level deeper than the node on top of
\* the ancestor stack is attached as the last child of that node and no
\* intermediate node is created; the ancestor stack is always a chain, each
\* entry a child of the entry below it.
C20_DeepLineBelowStackTop == [](StackIsChain) /\ [][DeepLineToStackTop]_vars

\* a payload whose second marker line is two levels deeper than the first
\* and is its only child, followed by a third marker line
C20_Witness ==
    /\ tp_ret # NotReturned
    /\ Len(tp_st.heap) = 3
    /\ LevelOfNode(2) = LevelOfNode(1) + 2
    /\ tp_st.heap[1].children = <<2>>
    /\ tp_st.heap[2].children = <<3>>
    /\ tp_st.nodes_stack = <<1, 2, 3>>

\* no line of the payload holds the marker
MarkerFree == \A k \in 1..Len(tp_lines) : ~Contains(tp_lines[k], "->")

\* C21: for an empty payload and for a payload none of whose lines holds the
\* marker '->' the adapter returns one node, labelled 'MySQL Error', of cost
\* 0.0 and without children: the fallback node, never None.
C21_FallbackNode ==
    tp_ret # NotReturned /\ MarkerFree
    => /\ tp_ret = create_fallback_node("{}")
       /\ tp_ret.node_type = "MySQL Error"
       /\ tp_ret.cost = 0
       /\ tp_ret.children = <<>>
       /\ tp_st.root_node = NullRef

\* a payload of a table border and a blank line has been parsed
C21_Witness ==
    /\ tp_ret # NotReturned
    /\ MarkerFree
    /\ Len(tp_lines) >= 2
    /\ \E k \in 1..Len(tp_lines) : tp_lines[k] # ""

(***************************************************************************)
(* Properties of the operator classification.                              *)
(***************************************************************************)
\* the categories in priority order, each with its substrings and its label
PriorityOrder ==
    << <<{"table scan"}, "Seq Scan">>,
       <<{"index lookup", "index scan"}, "Index Scan">>,
       <<{"nested loop"}, "Nested Loop">>,
       <<{"hash join"}, "Hash Join">>,
       <<{"aggregate"}, "Aggregate">>,
       <<{"sort", "ordering"}, "Sort">>,
       <<{"filter"}, "Filter">>,
       <<{"hash"}, "Hash">> >>

\* category k matches the text by case-insensitive substring
SubstringMatch(k, text) == \E p \in PriorityOrder[k][1] : Contains(Lower(text), p)

\* as SubstringMatch, the hash category applying only to a text without 'join'
GuardedMatch(k, text) ==
    /\ SubstringMatch(k, text)
    /\ PriorityOrder[k][2] = "Hash" => ~Contains(Lower(text), "join")

Matching(text) == {k \in DOMAIN PriorityOrder : SubstringMatch(k, text)}

GuardedMatching(text) == {k \in DOMAIN PriorityOrder : GuardedMatch(k, text)}

C6_Idempotent == Len(sq_out) >= 2 => sq_out[2] = sq_out[1]

\* the engine's quote character and reserved words
QuoteOf(engine) == IF engine = "duckdb" THEN DoubleQuote ELSE Backtick

ReservedOf(engine) ==
    IF engine = "duckdb" THEN reserved_aliases_duckdb ELSE reserved_aliases_mysql

RECURSIVE Unquoted(_, _)
\* the text without its quote characters
Unquoted(s, q) ==
    IF Contains(s, q) THEN Before(s, q) \o Unquoted(After(s, q), q) ELSE s

RECURSIVE RunStart(_, _, _)
\* the first position of the longest run of characters of the alphabet that
\* ends at position i (i + 1 when the run is empty)
RunStart(s, i, alphabet) ==
    IF i >= 1 /\ InStr(Ch(s, i), alphabet)
    THEN RunStart(s, i - 1, alphabet)
    ELSE i + 1

\* the quote at position i opens a token that follows the keyword AS
FollowsAs(s, i) ==
    LET w == RunStart(s, i - 1, SpaceChars)
    IN  w <= i - 1 /\ WordStart(s, w - 2) /\ MatchAtIgnoreCase(s, w - 2, "as")

\* the quote at position j closes a token that precedes a '.column'
PrecedesColumn(s, j) ==
    LET d == RunEnd(s, j + 1, SpaceChars) + 1
    IN  /\ MatchAt(s, d, ".")
        /\ RunEnd(s, RunEnd(s, d + 1, SpaceChars) + 1, WordChars)
               > RunEnd(s, d + 1, SpaceChars)

\* the quotes at i and j surround a whole-word reserved token that follows
\* AS or precedes a '.column'
QuotedAlias(s, i, j, engine) ==
    /\ i >= 1 /\ j <= Len(s) /\ j > i + 1
    /\ Ch(s, i) = QuoteOf(engine) /\ Ch(s, j) = QuoteOf(engine)
    /\ \E k \in DOMAIN ReservedOf(engine) :
           Lower(SubSeq(s, i + 1, j - 1)) = ReservedOf(engine)[k]
    /\ i = 1 \/ ~IsWordCh(Ch(s, i - 1))
    /\ j = Len(s) \/ ~IsWordCh(Ch(s, j + 1))
    /\ FollowsAs(s, i) \/ PrecedesColumn(s, j)

\* every quote character of the text opens or closes such a token
QuotesOnlyAliases(s, engine) ==
    \A i \in 1..Len(s) :
        Ch(s, i) = QuoteOf(engine) =>
            \E n \in 3..13 : QuotedAlias(s, i, i + n, engine) \/ QuotedAlias(s, i - n, i, engine)

\* the keyword AS with the whitespace around it, at position i of the input
SpacedAsEnd(s, i) ==
    LET a == RunEnd(s, i, SpaceChars) + 1
    IN  IF a > i /\ MatchAtIgnoreCase(s, a, "as") /\ RunEnd(s, a + 2, SpaceChars) >= a + 2
        THEN RunEnd(s, a + 2, SpaceChars)
        ELSE 0

AsEnd(s, i) ==
    IF MatchAtIgnoreCase(s, i, "as") /\ RunEnd(s, i + 2, SpaceChars) >= i + 2
    THEN RunEnd(s, i + 2, SpaceChars)
    ELSE 0

\* the positions of out from j on that hold a quote character or a
\* rewritten keyword AS
Rewrites(out, j, q) ==
    {k \in j..Len(out) :
        Ch(out, k) = q \/ MatchAt(out, k, " AS " \o q) \/ MatchAt(out, k, "AS " \o q)}

RECURSIVE SameButAs(_, _, _, _, _)
\* out from position k is the input from position i, but for quote
\* characters and for the keyword AS before a quoted token, which is written
\* in upper case with single spaces; k is in Rewrites
SameFromRewrite(in, i, out, k, q) ==
    IF MatchAt(out, k, " AS " \o q) /\ SpacedAsEnd(in, i) > 0
    THEN SameButAs(in, SpacedAsEnd(in, i) + 1, out, k + 4, q)
    ELSE IF MatchAt(out, k, "AS " \o q) /\ AsEnd(in, i) > 0
    THEN SameButAs(in, AsEnd(in, i) + 1, out, k + 3, q)
    ELSE IF Ch(out, k) = q THEN SameButAs(in, i, out, k + 1, q)
    ELSE /\ i <= Len(in)
         /\ Ch(in, i) = Ch(out, k)
         /\ SameButAs(in, i + 1, out, k + 1, q)

\* the same from position j of out, where the text up to the next rewrite
\* is the input's
SameButAs(in, i, out, j, q) ==
    IF Rewrites(out, j, q) = {} THEN From(in, i) = From(out, j)
    ELSE /\ i + Min(Rewrites(out, j, q)) - j - 1 <= Len(in)
         /\ SubSeq(in, i, i + Min(Rewrites(out, j, q)) - j - 1)
                = SubSeq(out, j, Min(Rewrites(out, j, q)) - 1)
         /\ SameFromRewrite(in, i + Min(Rewrites(out, j, q)) - j, out,
                            Min(Rewrites(out, j, q)), q)

\* the statement of the example with the alias declaration and the one
\* reference quoted
AliasedSelectQuoted(q) ==
    "SELECT x FROM foo AS " \o q \o "at" \o q \o " WHERE " \o q \o "at" \o q \o ".y = 1"

\* C7 as stated: the example's alias declaration and its one reference are
\* quoted and nothing else of it changes; for every text the transform
\* changes only whole-word reserved tokens that follow AS or precede a
\* '.column' reference: it quotes them and leaves every other character.
C7_AsStated ==
    sq_out # <<>> =>
        /\ sq_sql = AliasedSelect => sq_out[1] = AliasedSelectQuoted(QuoteOf(sq_engine))
        /\ QuotesOnlyAliases(sq_out[1], sq_engine)
        /\ Unquoted(sq_out[1], QuoteOf(sq_engine)) = sq_sql

\* C7, amended: the example's alias declaration and its one reference are
\* quoted and nothing else of it changes; for every text the transform
\* quotes only whole-word reserved tokens that follow AS or precede a
\* '.column' reference, and besides the quotes it changes only the keyword
\* AS before an alias it quotes, written in upper case with single spaces.
C7_QuotesOnlyReservedAliases ==
    sq_out # <<>> =>
        /\ sq_sql = AliasedSelect => sq_out[1] = AliasedSelectQuoted(QuoteOf(sq_engine))
        /\ QuotesOnlyAliases(sq_out[1], sq_engine)
        /\ SameButAs(sq_sql, 1, sq_out[1], 1, QuoteOf(sq_engine))

\* the example, transformed
C7_Witness ==
    /\ sq_sql = AliasedSelect
    /\ sq_out # <<>>
    /\ sq_out[1] = AliasedSelectQuoted(QuoteOf(sq_engine))
    /\ sq_out[1] # sq_sql

(***************************************************************************)
(* Properties of the JSON adapter and of SqlToPlanNode.                    *)
(***************************************************************************)
\* the engine answered with a JSON array whose first element is a plan, and
\* the call has returned
JsonPlanParsed ==
    /\ ex_engine = "duckdb"
    /\ ex_ret # NotCalled
    /\ ex_connection # None \/ ex_connects
    /\ ex_answer.kind = "answers"
    /\ ex_answer.result.t = "list"
    /\ ex_answer.result.v # <<>>
    /\ ex_answer.result.v[1] \in JsonPlans
    /\ ~ex_keep

\* the payload node the JSON adapter was given
JsonRoot == ex_answer.result.v[1]

RECURSIVE JsonDepth(_)
\* the nesting depth of a payload node
JsonDepth(json_node) ==
    1 + Max({0} \cup {JsonDepth(json_node.v["children"].v[k]) :
                         k \in 1..Len(json_node.v["children"].v)})

RECURSIVE JsonCount(_)
\* the nodes of a payload node: itself and its nested child nodes
JsonCount(json_node) ==
    IF json_node.v["children"].v = <<>> THEN 1
    ELSE JsonCount(json_node.v["children"].v[1])
         + JsonCount(JObj([json_node.v EXCEPT !["children"] = JArr(Tail(@.v))]))

RECURSIVE TreeDepth(_)
\* the root-to-leaf depth of a tree
TreeDepth(tree) ==
    1 + Max({0} \cup {TreeDepth(tree.children[k]) : k \in 1..Len(tree.children)})

RECURSIVE InPayloadOrder(_, _)
\* the k-th child of every node of the tree is the node of the k-th child
\* of the payload node
InPayloadOrder(json_node, tree) ==
    /\ tree.node_type = json_node.v["name"].v
    /\ tree.info["duckdb_extra"] = json_node.v["extra_info"]
    /\ Len(tree.children) = Len(json_node.v["children"].v)
    /\ \A k \in 1..Len(tree.children) :
           InPayloadOrder(json_node.v["children"].v[k], tree.children[k])

\* C3: for a JSON plan with N nested child nodes the adapter returns a tree
\* of N+1 nodes, as deep as the payload is nested, the children of every
\* node in the payload's order.
C3_TreeOfPayload ==
    JsonPlanParsed =>
        /\ ex_ret.ok
        /\ CountNodes(ex_ret.node) = JsonCount(JsonRoot)
        /\ TreeDepth(ex_ret.node) = JsonDepth(JsonRoot)
        /\ InPayloadOrder(JsonRoot, ex_ret.node)

\* a parsed plan of four nodes, three deep, one node with two different
\* children
C3_Witness ==
    /\ JsonPlanParsed
    /\ ex_ret.ok
    /\ CountNodes(ex_ret.node) = 4
    /\ TreeDepth(ex_ret.node) = 3
    /\ Len(ex_ret.node.children) = 2
    /\ ex_ret.node.children[1].table_name # ex_ret.node.children[2].table_name

\* the payload of the example: HASH_JOIN over SEQ_SCAN of t and SEQ_SCAN of s
HashJoinOfScans == JsonPlan((2 :> 1) @@ (3 :> 1), <<1, 2, 3>>, 1)

\* C9: for the payload of the example the root's operator is the canonical
\* hash join category, both children carry the canonical sequential scan
\* category, and their table names are 't' and 's' in that order.
C9_CanonicalCategories ==
    JsonPlanParsed /\ JsonRoot = HashJoinOfScans =>
        /\ ex_ret.ok
        /\ ex_ret.node.node_type = "Hash Join"
        /\ Len(ex_ret.node.children) = 2
        /\ ex_ret.node.children[1].node_type = "Seq Scan"
        /\ ex_ret.node.children[2].node_type = "Seq Scan"
        /\ ex_ret.node.children[1].table_name = "t"
        /\ ex_ret.node.children[2].table_name = "s"

\* C10: when the EXPLAIN call raises, SqlToPlanNode of either engine returns
\* a single node labelled as an error operator, of cost 0, with the failure
\* text under info['error'].
C10_ErrorNode ==
    /\ ex_ret # NotCalled
    /\ ex_connection # None \/ ex_connects
    /\ ex_answer.kind = "raises"
    => /\ ex_ret.ok
       /\ ex_ret.node.children = <<>>
       /\ ex_ret.node.node_type \in {"Error", "MySQL Error"}
       /\ ex_ret.node.cost = 0
       /\ "error" \in DOMAIN ex_ret.node.info
       /\ ex_ret.node.info["error"] = ex_answer.text

\* the call was made and the connection was there
Called == ex_ret # NotCalled /\ (ex_connection # None \/ ex_connects)

\* C11: for every payload, an empty JSON array, a JSON null and nodes of an
\* unexpected shape included, SqlToPlanNode returns a node and propagates no
\* raised error.
C11_NeverRaises == Called /\ ex_answer.kind = "answers" => ex_ret.ok

RECURSIVE Preorder(_)
\* the nodes of a tree, a node before its children
Preorder(tree) ==
    IF tree.children = <<>> THEN <<tree>>
    ELSE Preorder([tree EXCEPT !.children = SubSeq(@, 1, Len(@) - 1)])
         \o Preorder(tree.children[Len(tree.children)])

\* the nodes of the returned tree
ReturnedNodes == IF Called /\ ex_ret.ok THEN Preorder(ex_ret.node) ELSE <<>>

\* C13: every node of a tree an adapter returns has a non-empty operator
\* label, also for a marker line without operator text and for a JSON node
\* whose name is empty or missing.
C13_NonEmptyLabel ==
    \A k \in DOMAIN ReturnedNodes : ReturnedNodes[k].node_type # ""

FailureLabels == {"Error", "MySQL Error"}

\* C14: the cost of every node of a tree an adapter returns is a number that
\* is not negative, and is 0 only on a failure node.
C14_CostNonNegative ==
    \A k \in DOMAIN ReturnedNodes :
        /\ ReturnedNodes[k].cost >= 0
        /\ ReturnedNodes[k].cost = 0 => ReturnedNodes[k].node_type \in FailureLabels

ScanLabels == {"Seq Scan", "Index Scan"}

\* C15: a node of a tree an adapter returns has table_name set if and only
\* if it is classified as a scan, and a node classified as a scan has no
\* children.
C15_TableNameIffLeafScan ==
    \A k \in DOMAIN ReturnedNodes :
        /\ ReturnedNodes[k].table_name # None <=> ReturnedNodes[k].node_type \in ScanLabels
        /\ ReturnedNodes[k].node_type \in ScanLabels => ReturnedNodes[k].children = <<>>

\* the tree the adapter built, before the flag is looked at
UnprunedTree ==
    IF ex_engine = "duckdb" THEN duckdb_node(duckdb_json_dict(ex_answer)).node
    ELSE parse_mysql_text_plan(mysql_text_lines(ex_answer))

\* the positions, in Preorder, of the nodes classified as scans or joins
KeptPositions(nodes) ==
    SelectSeq([k \in 1..Len(nodes) |-> k], LAMBDA k : IsScanOrJoin(nodes[k]))

\* the node at position i is above the node at position j
IsAbove(nodes, i, j) == i < j /\ j < i + CountNodes(nodes[i])

Alone(node) == [node EXCEPT !.children = <<>>]

\* the scan and join nodes of the two trees are the same nodes in the same
\* order, and one is above another in both trees or in none
SameSkeleton(before, after) ==
    /\ Len(KeptPositions(before)) = Len(KeptPositions(after))
    /\ \A a \in 1..Len(KeptPositions(before)) :
           /\ Alone(before[KeptPositions(before)[a]]) = Alone(after[KeptPositions(after)[a]])
           /\ \A b \in 1..Len(KeptPositions(before)) :
                  IsAbove(before, KeptPositions(before)[a], KeptPositions(before)[b])
                  <=> IsAbove(after, KeptPositions(after)[a], KeptPositions(after)[b])

\* C18: SqlToPlanNode returns the adapter's tree when keep_scans_joins_only
\* is false and the pruned tree when it is true; the pruned tree of a tree
\* of scans and joins only is that tree, the pruned tree of a tree without
\* scans and joins is a single node, and in general the pruned tree holds
\* the scan and join nodes, in their order and one above another as before,
\* and below its root nothing else.
C18_PrunedWhenAsked ==
    Called /\ ex_ret.ok =>
        /\ ~ex_keep => ex_ret.node = UnprunedTree
        /\ ex_keep =>
            /\ SameSkeleton(Preorder(UnprunedTree), Preorder(ex_ret.node))
            /\ \A k \in 2..CountNodes(ex_ret.node) : IsScanOrJoin(Preorder(ex_ret.node)[k])
            /\ Len(KeptPositions(Preorder(UnprunedTree))) = CountNodes(UnprunedTree)
                   => ex_ret.node = UnprunedTree
            /\ KeptPositions(Preorder(UnprunedTree)) = <<>> => CountNodes(ex_ret.node) = 1
            /\ KeptPositions(Preorder(UnprunedTree)) # <<>> => IsScanOrJoin(ex_ret.node)

\* a Sort over a join over a Filter is pruned to the join and its two scans
C18_Witness ==
    /\ Called
    /\ ex_ret.ok
    /\ ex_keep
    /\ CountNodes(UnprunedTree) = 5
    /\ CountNodes(ex_ret.node) = 3
    /\ ex_ret.node.node_type = "Nested Loop"
    /\ Len(ex_ret.node.children) = 2

\* the payload of the node holds a cost or cardinality field that is no
\* number: an 'Estimated Cardinality' int() rejects, a cost= text float()
\* rejects
UnparsedCost(node) ==
    IF "duckdb_extra" \in DOMAIN node.info
    THEN /\ HasKey(node.info["duckdb_extra"], "Estimated Cardinality")
         /\ Truthy(node.info["duckdb_extra"].v["Estimated Cardinality"])
         /\ ~PyInt(node.info["duckdb_extra"].v["Estimated Cardinality"]).ok
    ELSE IF "mysql_line" \in DOMAIN node.info
    THEN /\ cost_match(node.info["mysql_line"]) # None
         /\ ~ParseFloat(cost_match(node.info["mysql_line"])).ok
    ELSE FALSE

\* C26: a node whose payload holds a cost or cardinality field that cannot
\* be parsed as a number has the sentinel cost 1000.0 and the raw value is
\* recorded under info['raw_cost'].
C26_RawCostRecorded ==
    \A k \in DOMAIN ReturnedNodes :
        UnparsedCost(ReturnedNodes[k])
        => /\ ReturnedNodes[k].cost = SentinelCost
           /\ "raw_cost" \in DOMAIN ReturnedNodes[k].info

\* the Python type of a JSON value
TypeName(j) == IF j.t = "null" THEN "NoneType" ELSE j.t

\* C27: the value the JSON adapter stores under info['filter'] and under
\* info['join_conditions'] is a text string, whether the payload's 'Filters'
\* or 'Conditions' is a string, a list, an object or null.  The value under
\* info['join_conditions'] is the payload's value itself and has its type.
C27_StoredAsText ==
    \A k \in DOMAIN ReturnedNodes :
        "duckdb_extra" \in DOMAIN ReturnedNodes[k].info
        => /\ "filter" \in DOMAIN ReturnedNodes[k].info
              => ReturnedNodes[k].info["filter"] # None
           /\ "join_conditions" \in DOMAIN ReturnedNodes[k].info
              => /\ ReturnedNodes[k].info["join_conditions"]
                    = PyValue(ReturnedNodes[k].info["duckdb_extra"].v["Conditions"])
                 /\ TypeName(ReturnedNodes[k].info["duckdb_extra"].v["Conditions"]) = "str"

\* C30: SqlToPlanNode of either engine closes the connection on every way
\* out, by return or by exception, if and only if it made the connection
\* itself: a connection of the caller is never closed, and a made
\* connection is not left open.
C30_ClosedIffCreated ==
    ex_ret # NotCalled => (ex_ret.closed <=> (ex_connection = None /\ ex_opened))

(***************************************************************************)
(* Properties of the box-drawing adapter.                                  *)
(***************************************************************************)
\* SqlToPlanNode of duckdb.py was given a one-column result
BoxCalled == Called /\ ex_engine = "duckdb" /\ ex_answer.kind = "text"

\* the lines of the payload
BoxPayload == SplitLines(JoinWith(ex_answer.rows, "\n"))

\* the dict _parse_duckdb_text_explain returned
BoxPlan == ex_ret.json_dict.v["Plan"].v

\* the lines that name an operation of the list in a box header
HeadersOf(ops) ==
    {k \in DOMAIN BoxPayload :
        /\ MentionsAny(ops, Upper(CleanLine(BoxPayload[k])))
        /\ IsHeader(CleanLine(BoxPayload[k]))}

\* C22: when some line of the payload names a main operation (HASH_JOIN,
\* NESTED_LOOP, AGGREGATE, SORT) the operator label is the text of such a
\* line, whatever the order of the lines: a scan line never replaces it.
C22_MainOperationWins ==
    BoxCalled /\ HeadersOf(main_operations) # {}
    => ex_ret.node.node_type \in
           {CleanLine(BoxPayload[k]) : k \in HeadersOf(main_operations)}

\* the row estimates of the payload's lines
RowEstimates ==
    {RowsOf(row_match(Strip(BoxPayload[k]))).val :
        k \in {n \in DOMAIN BoxPayload :
                  /\ row_match(Strip(BoxPayload[n])) # None
                  /\ RowsOf(row_match(Strip(BoxPayload[n]))).ok}}

\* C23: Rows is the largest row estimate of the payload's lines and the cost
\* is its log-scale transform, in whatever order the lines appear; without
\* an estimate Rows is 1000 and the cost is the sentinel 1000.0.
C23_LargestEstimate ==
    BoxCalled
    => IF RowEstimates = {}
       THEN BoxPlan["Rows"].v = 1000 /\ ex_ret.node.cost = SentinelCost
       ELSE /\ BoxPlan["Rows"].v = Max(RowEstimates)
            /\ ex_ret.node.cost = IntLog10(Max({Max(RowEstimates), 1})) * 1000 * Milli

\* the table names of the payload's lines
BoxTables ==
    {duckdb_table_match(Strip(BoxPayload[k])) :
        k \in {n \in DOMAIN BoxPayload : duckdb_table_match(Strip(BoxPayload[n])) # None}}

\* 'Join (X, Y, Z)' of the names of a set, in some order
JoinLabels(names) ==
    {"Join (" \o JoinWith(order, ", ") \o ")" :
        order \in {o \in [1..Cardinality(names) -> names] :
                      \A i, j \in DOMAIN o : i # j => o[i] # o[j]}}

\* C24: the adapter returns one node without children; when no line names
\* an operation the label is made of the set of the table names: 'DuckDB
\* Plan' without a table, 'Scan X' for one distinct table, also when several
\* lines name it, and 'Join (X, Y, Z)' for several.
C24_FlatNodeOfTableSet ==
    BoxCalled
    => /\ ex_ret.node.children = <<>>
       /\ HeadersOf(main_operations \o scan_operations \o detail_operations) = {}
          => CASE Cardinality(BoxTables) = 0 -> ex_ret.node.node_type = "DuckDB Plan"
               [] Cardinality(BoxTables) = 1 ->
                      ex_ret.node.node_type = "Scan " \o (CHOOSE x \in BoxTables : TRUE)
               [] Cardinality(BoxTables) \in {2, 3} ->
                      ex_ret.node.node_type \in JoinLabels(BoxTables)
               [] OTHER -> MatchAt(ex_ret.node.node_type, 1, "Join (")

(***************************************************************************)
(* Properties of the loading of a workload.                                *)
(***************************************************************************)
\* the plan of a file cannot be obtained: no connection, or the EXPLAIN
\* statement raises
Unobtainable(file) == ~file.connects \/ file.answer.kind = "raises"

\* C12: when the query files are loaded with a supported adapter, the load
\* returns one node per file, a failure node for every file whose plan
\* cannot be obtained, and is not ended by an exception of one file.
C12_BatchSurvives ==
    /\ ld_engine \in {"postgres", "duckdb"}
    /\ ld_ret # NotCalled
    /\ ld_test # {ld_files[k].path : k \in DOMAIN ld_files}
    => /\ ld_ret.ok
       /\ Len(ld_ret.all_nodes) = Len(ld_files)
       /\ \A k \in DOMAIN ld_files :
              Unobtainable(ld_files[k]) =>
                  ld_ret.all_nodes[k].node_type \in FailureLabels

\* C19: every engine validate_engine accepts is dispatched to its adapter:
\* ParseSqlToNode raises ValueError only for an engine validate_engine
\* rejects.
C19_TaggedDispatch ==
    ld_ret # NotCalled /\ ~ld_ret.ok /\ ld_ret.raised = "ValueError"
        => ~validate_engine(ld_engine).ok

(***************************************************************************)
(* Properties of WorkloadInfo.                                             *)
(***************************************************************************)
\* an array in ascending order without a duplicate
IsAscending(array) == \A k \in 1..(Len(array) - 1) : StrLess(array[k], array[k + 1])

\* the nodes of the trees of the list, tree after tree
NodesOfTrees == Concat([k \in 1..Len(wi_nodes) |-> Preorder(wi_nodes[k])])

Constructed == wi_self # NotConstructed

\* C16: after the construction and after every call of SetPhysicalOps the
\* labels of scan_types and of join_types are in all_ops, all_ops is sorted
\* and has no duplicate, and an argument that is not None is the new content
\* of its array.
C16_AllOpsConsistent ==
    Constructed =>
        /\ SetOf(wi_self.scan_types) \subseteq SetOf(wi_self.all_ops)
        /\ SetOf(wi_self.join_types) \subseteq SetOf(wi_self.all_ops)
        /\ IsAscending(wi_self.all_ops)
        /\ wi_calls > 0 /\ ~wi_args.scan_ops.is_none
               => SetOf(wi_self.scan_types) = SetOf(wi_args.scan_ops.ops)
        /\ wi_calls > 0 /\ ~wi_args.join_ops.is_none
               => SetOf(wi_self.join_types) = SetOf(wi_args.join_ops.ops)

\* two overrides, the last with a label given twice and a scan label no
\* node has, after which a label of the nodes has left all_ops
C16_Witness ==
    /\ Constructed
    /\ wi_calls = 2
    /\ wi_args.join_ops = Ops(<<"Nested Loop", "Hash Join", "Hash Join">>)
    /\ wi_args.scan_ops = Ops(<<"Seq Scan", "Index Only Scan">>)
    /\ "Index Only Scan" \in SetOf(wi_self.all_ops)
    /\ "Index Scan" \in SetOf(WorkloadInfo(wi_nodes).all_ops)
    /\ "Index Scan" \notin SetOf(wi_self.all_ops)
    /\ "Sort" \in SetOf(wi_self.all_ops)

OfCorpus == WorkloadInfo(wi_nodes)

\* the labels of the corpus that are neither scan labels nor join labels
UnrelatedOps ==
    SetOf(OfCorpus.all_ops) \ (SetOf(OfCorpus.scan_types) \cup SetOf(OfCorpus.join_types))

\* C28: after any sequence of calls of SetPhysicalOps all_ops still holds
\* every label of the corpus that is neither one of its scan labels nor one
\* of its join labels, also when an earlier call listed the label and a
\* later call does not.
C28_UnrelatedOpsKept ==
    Constructed => \A op \in UnrelatedOps : op \in SetOf(wi_self.all_ops)

\* the three arrays of the action space
ActionSpace(self) == <<self.scan_types, self.join_types, self.all_ops>>

\* a call with the arguments of the call before it, and a call with None
\* and None, leave the three arrays as they are
RepeatedOrNeutralCall ==
    wi_calls' = wi_calls + 1
    => /\ wi_calls >= 1 /\ wi_args' = wi_args
          => ActionSpace(wi_self') = ActionSpace(wi_self)
       /\ wi_args' = NoArguments
          => ActionSpace(wi_self') = ActionSpace(wi_self)

\* C29: SetPhysicalOps(j, s) called twice in a row leaves scan_types,
\* join_types and all_ops as after the first call, and
\* SetPhysicalOps(None, None) leaves the three unchanged.
C29_IdempotentAndNeutral == [][RepeatedOrNeutralCall]_vars

\* the same override of both arrays has been made twice on a corpus with
\* other labels, and the action space is not the one of the corpus
C29_Witness ==
    /\ Constructed
    /\ wi_calls = 2
    /\ ~wi_args.join_ops.is_none
    /\ ~wi_args.scan_ops.is_none
    /\ wi_self = SetPhysicalOps(SetPhysicalOps([constructed |-> TRUE] @@ OfCorpus,
                                               wi_args.join_ops, wi_args.scan_ops),
                                wi_args.join_ops, wi_args.scan_ops)
    /\ ActionSpace(wi_self) # ActionSpace(OfCorpus)
    /\ Len(wi_self.scan_types) >= 1

(***************************************************************************)
(* Properties of the synthesized cost.                                     *)
(***************************************************************************)
\* the integer a cardinality of the model denotes
CardinalityOf(j) == IF j.t = "int" THEN j.v ELSE DigitsVal(j.v)

\* C25: the cost synthesized from 'Estimated Cardinality' does not decrease
\* when the cardinality grows, over the non-negative integers given as
\* numbers or as digit strings, and the cardinalities 0 and 1 both give
\* cost 0.
C25_CostMonotone ==
    /\ \A i, j \in DOMAIN cc_cost :
           CardinalityOf(cc_cardinality[i]) <= CardinalityOf(cc_cardinality[j])
           => cc_cost[i] <= cc_cost[j]
    /\ \A i \in DOMAIN cc_cost :
           CardinalityOf(cc_cardinality[i]) \in {0, 1} => cc_cost[i] = 0

=========================================================================
